---- MODULE Spec2Model ----
(***************************************************************************)
(* A model of the MVM ledger node: the mempool (src/src/chain.rs Mempool), *)
(* the blockchain engine (Blockchain::new, add_transaction, produce_block, *)
(* execute_transaction), the key-value state store (src/src/state.rs) and  *)
(* the MVM-20 token standard (src/src/standards.rs).                       *)
(*                                                                         *)
(* Encoding.  Address strings are integers: 1..NumAddrs are the valid      *)
(* bech32 addresses (1 is the master), ordered as their strings are;       *)
(* NoAddr is an absent Option<String>.  SHA-256 is an injective encoding   *)
(* of the tuple of hashed fields.  A RocksDB table is a function whose     *)
(* DOMAIN is the set of keys written so far; a missing key reads as the    *)
(* default the getter returns.                                             *)
(***************************************************************************)
EXTENDS Integers, Sequences, FiniteSets, TLC

\* ---------------------------------------------------------------- bounds
NumAddrs == 2
MaxHeight == 2
MaxPending == 3
MaxTime == 0
MaxNonce == 1
\* u64::MAX with the 64 bits scaled down to three: the largest value a u64
\* nonce or contract cell can hold, where n + 1 leaves the type
U64_MAX == 7
\* u64::MAX on the scale of native amounts (base units, 10^8 to the coin): the
\* largest amount a balance, a value or a fee can hold
NativeMax == 999999999

\* ------------------------------------------------- configuration (inputs)
master_balance == 5
block_reward == 2
validator_percent == 50
max_txs_per_block == 2
\* the faucet section of the configuration: coins per claim and seconds between two
\* claims of one address; the faucet is enabled
faucet_amount == 1
faucet_cooldown == 3600
gas_limit == 1000000

\* ------------------------------------------------------ program constants
UNIT == 100000000
API_GAS_PRICE == 1000

Addrs == 1..NumAddrs
master_address == 1
NoAddr == -1
InvalidAddr == 0
Times == 0..MaxTime

\* ------------------------------------------------------ key-value helpers
EmptyMap == <<>>
Get(m, k, d) == IF k \in DOMAIN m THEN m[k] ELSE d
Put(m, k, v) == [x \in (DOMAIN m) \cup {k} |-> IF x = k THEN v ELSE m[x]]
Del(m, k) == [x \in (DOMAIN m) \ {k} |-> m[x]]

\* Address::is_valid: the mvm1 prefix and a bech32 decode
address_is_valid(a) == a \in Addrs

\* ------------------------------------------------------------ transactions
\* Option<String> error of a transaction: the TxError variant, its two numbers
\* (expected/got, required/available, an address) and its message
NoError == [kind |-> "None", a |-> 0, b |-> 0, msg |-> ""]
TxError(k, a, b, msg) == [kind |-> k, a |-> a, b |-> b, msg |-> msg]

\* A string value (a call argument, a storage cell, a resolved operand):
\* isNum: the decimal string of n; otherwise the non-numeric string with code n,
\* where an address string has its address as code and "" has code 0.
Num(n) == [isNum |-> TRUE, n |-> n]
Str(c) == [isNum |-> FALSE, n |-> c]
EmptyStr == Str(0)
TrueStr == Str(50)
FalseStr == Str(51)
\* str::parse::<u64>().unwrap_or(0)
parse_u64(v) == IF v.isNum THEN v.n ELSE 0
\* the string as a key of the store (an address, a mapping key): injective
key_of(v) == IF v.isNum THEN -(v.n) - 2 ELSE v.n
str_of(k) == IF k < -1 THEN Num(-k - 2) ELSE Str(k)

\* a method name: pre is "get" or "set" for get_<name> / set_<name>, else ""
Method(pre, name) == [pre |-> pre, name |-> name]
NoMethod == Method("", "")

\* a contract definition without variables, mappings or functions
NoDef == [variables |-> <<>>, mappings |-> <<>>, functions |-> <<>>]

\* TxData; kind "None" is an absent Option<TxData>
NoData == [kind |-> "None", contract |-> 0, method |-> NoMethod, args |-> <<>>, to |-> 0,
           amount |-> 0, name |-> 0, name_len |-> 0, total_supply |-> 0, token |-> NoAddr,
           def |-> NoDef]

\* Transaction::calculate_hash
tx_calculate_hash(tx) ==
    <<tx.tx_type, tx.from, tx.to, tx.value, tx.nonce, tx.timestamp>>

\* a Transaction as a submitter builds it (status Pending, no error, gas_used 0)
NewTx(type, from, to, value, nonce, data, ts, sig) ==
    LET body == [hash |-> <<>>, tx_type |-> type, from |-> from, to |-> to,
                 value |-> value, gas_price |-> API_GAS_PRICE, gas_limit |-> 100000,
                 gas_used |-> 0, nonce |-> nonce, data |-> data, timestamp |-> ts,
                 sig |-> sig, status |-> "Pending", error |-> NoError]
    IN  [body EXCEPT !.hash = tx_calculate_hash(body)]

\* Transaction::verify_signature: Ok(true) "ok", Ok(false) "bad", Err(_) "err"
\* a signature check that accepts every signature
verify_signature_accept_all(tx) == "ok"

verify_signature(tx) == tx.sig

\* ---------------------------------------------------------------- mempool
Mempool_new == [by_hash |-> EmptyMap, by_sender |-> EmptyMap, count |-> 0]

\* Mempool::add without the duplicate-hash check
add_no_dedup(mp, tx) ==
    IF tx.from \in DOMAIN mp.by_sender /\ tx.nonce \in DOMAIN mp.by_sender[tx.from]
    THEN [mp |-> mp, res |-> "NoncePending"]
    ELSE [mp |-> [by_hash |-> Put(mp.by_hash, tx.hash, tx),
                  by_sender |-> Put(mp.by_sender, tx.from,
                                    Put(Get(mp.by_sender, tx.from, EmptyMap),
                                        tx.nonce, tx.hash)),
                  count |-> mp.count + 1],
          res |-> "Added"]

\* Mempool::add replacing the pending transaction of the same sender and nonce
add_replace(mp, tx) ==
    IF tx.hash \in DOMAIN mp.by_hash
    THEN [mp |-> mp, res |-> "Duplicate"]
    ELSE [mp |-> [by_hash |-> Put(mp.by_hash, tx.hash, tx),
                  by_sender |-> Put(mp.by_sender, tx.from,
                                    Put(Get(mp.by_sender, tx.from, EmptyMap),
                                        tx.nonce, tx.hash)),
                  count |-> mp.count + 1],
          res |-> "Added"]

\* Mempool::add; res is Ok(true) "Added", Ok(false) "Duplicate", Err "NoncePending"
add(mp, tx) ==
    IF tx.hash \in DOMAIN mp.by_hash
    THEN [mp |-> mp, res |-> "Duplicate"]
    ELSE IF tx.from \in DOMAIN mp.by_sender /\ tx.nonce \in DOMAIN mp.by_sender[tx.from]
    THEN [mp |-> mp, res |-> "NoncePending"]
    ELSE [mp |-> [by_hash |-> Put(mp.by_hash, tx.hash, tx),
                  by_sender |-> Put(mp.by_sender, tx.from,
                                    Put(Get(mp.by_sender, tx.from, EmptyMap),
                                        tx.nonce, tx.hash)),
                  count |-> mp.count + 1],
          res |-> "Added"]

\* Mempool::remove that keeps the sender's entry when its last nonce goes
remove_keep_sender(mp, hash) ==
    IF hash \in DOMAIN mp.by_hash
    THEN LET tx == mp.by_hash[hash]
             sender_txs == Del(Get(mp.by_sender, tx.from, EmptyMap), tx.nonce)
         IN  [by_hash |-> Del(mp.by_hash, hash),
              by_sender |-> IF tx.from \in DOMAIN mp.by_sender
                            THEN Put(mp.by_sender, tx.from, sender_txs)
                            ELSE mp.by_sender,
              count |-> mp.count - 1]
    ELSE mp

\* Mempool::remove
remove(mp, hash) ==
    IF hash \in DOMAIN mp.by_hash
    THEN LET tx == mp.by_hash[hash]
             sender_txs == Del(Get(mp.by_sender, tx.from, EmptyMap), tx.nonce)
         IN  [by_hash |-> Del(mp.by_hash, hash),
              by_sender |-> IF tx.from \in DOMAIN mp.by_sender
                            THEN IF DOMAIN sender_txs = {}
                                 THEN Del(mp.by_sender, tx.from)
                                 ELSE Put(mp.by_sender, tx.from, sender_txs)
                            ELSE mp.by_sender,
              count |-> mp.count - 1]
    ELSE mp

\* Mempool::has_pending_nonce
has_pending_nonce(mp, sender, n) ==
    sender \in DOMAIN mp.by_sender /\ n \in DOMAIN mp.by_sender[sender]

\* the outcome of a u64 addition that panicked (overflow checks compiled in)
Panic == -1

\* a + b on u64: wraps when the build has no overflow checks, panics otherwise
u64_add(a, b, overflow_checks) ==
    IF a + b <= U64_MAX THEN a + b
    ELSE IF overflow_checks THEN Panic ELSE (a + b) % (U64_MAX + 1)

\* current + add_val of the add and map_add ops of MVM::call, over both builds
add_outcomes(current, add_val) ==
    {u64_add(parse_u64(current), parse_u64(add_val), overflow_checks) :
        overflow_checks \in BOOLEAN}

\* a + b on the u64 of native amounts, in a build without overflow checks (with
\* them a sum above the maximum panics)
native_add(a, b) == (a + b) % (NativeMax + 1)

\* std::cmp::max
cmp_max(a, b) == IF a >= b THEN a ELSE b

\* Mempool::get_pending_nonce; max_nonce is the last key of the sender's BTreeMap
get_pending_nonce(mp, sender, confirmed_nonce, overflow_checks) ==
    IF sender \in DOMAIN mp.by_sender /\ DOMAIN mp.by_sender[sender] # {}
    THEN LET max_nonce == CHOOSE n \in DOMAIN mp.by_sender[sender] :
                                  \A k \in DOMAIN mp.by_sender[sender] : k <= n
             next == u64_add(max_nonce, 1, overflow_checks)
         IN  IF next = Panic THEN Panic ELSE cmp_max(confirmed_nonce, next)
    ELSE confirmed_nonce

\* the comparator comparing the nonce before the sender
tx_before_nonce_first(a, b) == a.nonce < b.nonce \/ (a.nonce = b.nonce /\ a.from < b.from)

\* the comparator of get_pending's sort_by: a strictly before b
tx_before(a, b) == a.from < b.from \/ (a.from = b.from /\ a.nonce < b.nonce)

RECURSIVE sort_by(_)
sort_by(S) ==
    IF S = {} THEN <<>>
    ELSE LET m == CHOOSE x \in S : \A y \in S : ~tx_before(y, x)
         IN  <<m>> \o sort_by(S \ {m})

truncate(s, max) == IF Len(s) <= max THEN s ELSE SubSeq(s, 1, max)

\* Mempool::get_pending
get_pending(mp, max) ==
    truncate(sort_by({mp.by_hash[h] : h \in DOMAIN mp.by_hash}), max)

RECURSIVE remove_all(_, _)
remove_all(mp, txs) ==
    IF txs = <<>> THEN mp ELSE remove_all(remove(mp, Head(txs).hash), Tail(txs))

\* Mempool::drain_for_block
drain_for_block(mp, max) ==
    LET txs == get_pending(mp, max)
    IN  [txs |-> txs, mp |-> remove_all(mp, txs)]

\* ------------------------------------------------------------------ blocks
ZeroHash == <<0>>

RECURSIVE tx_hashes(_)
tx_hashes(txs) == IF txs = <<>> THEN <<>> ELSE <<Head(txs).hash>> \o tx_hashes(Tail(txs))

RECURSIVE sum_gas_used(_)
sum_gas_used(txs) == IF txs = <<>> THEN 0 ELSE Head(txs).gas_used + sum_gas_used(Tail(txs))

\* Block::calculate_hash
block_calculate_hash(b) ==
    <<b.height, b.prev_hash, b.timestamp, b.validator, tx_hashes(b.transactions)>>

\* Block::is_valid
block_is_valid(b) == b.hash = block_calculate_hash(b)

\* Block::new writing the block at the height of its predecessor
block_new_same_height(h, prev_hash, validator, transactions, rewards, glimit, ts) ==
    LET block == [height |-> h - 1, hash |-> <<>>, prev_hash |-> prev_hash, timestamp |-> ts,
                  validator |-> validator, transactions |-> transactions,
                  tx_count |-> Len(transactions), gas_used |-> sum_gas_used(transactions),
                  gas_limit |-> glimit, rewards |-> rewards]
    IN  [block EXCEPT !.hash = block_calculate_hash(block)]

\* Block::new leaving prev_hash at the zero hash of Block::genesis
block_new_unlinked(h, prev_hash, validator, transactions, rewards, glimit, ts) ==
    LET block == [height |-> h, hash |-> <<>>, prev_hash |-> ZeroHash, timestamp |-> ts,
                  validator |-> validator, transactions |-> transactions,
                  tx_count |-> Len(transactions), gas_used |-> sum_gas_used(transactions),
                  gas_limit |-> glimit, rewards |-> rewards]
    IN  [block EXCEPT !.hash = block_calculate_hash(block)]

\* Block::new computing the hash before the transactions are moved into the block
block_new_hash_first(h, prev_hash, validator, transactions, rewards, glimit, ts) ==
    LET block == [height |-> h, hash |-> <<>>, prev_hash |-> prev_hash, timestamp |-> ts,
                  validator |-> validator, transactions |-> <<>>,
                  tx_count |-> Len(transactions), gas_used |-> sum_gas_used(transactions),
                  gas_limit |-> glimit, rewards |-> rewards]
    IN  [block EXCEPT !.hash = block_calculate_hash(block),
                      !.transactions = transactions]

\* Block::new; ts is the clock reading Utc::now().timestamp()
block_new(h, prev_hash, validator, transactions, rewards, glimit, ts) ==
    LET block == [height |-> h, hash |-> <<>>, prev_hash |-> prev_hash, timestamp |-> ts,
                  validator |-> validator, transactions |-> transactions,
                  tx_count |-> Len(transactions), gas_used |-> sum_gas_used(transactions),
                  gas_limit |-> glimit, rewards |-> rewards]
    IN  [block EXCEPT !.hash = block_calculate_hash(block)]

\* Block::genesis
genesis(master, balance, ts) ==
    LET block == [height |-> 0, hash |-> <<>>, prev_hash |-> ZeroHash, timestamp |-> ts,
                  validator |-> master, transactions |-> <<>>, tx_count |-> 0,
                  gas_used |-> 0, gas_limit |-> 1000000,
                  rewards |-> [validator_reward |-> balance, total_minted |-> balance]]
    IN  [block EXCEPT !.hash = block_calculate_hash(block)]

\* ------------------------------------------------------------- state store
\* st is the content of the store that transactions read and write:
\* [balance, nonce, tokens, token_balance, mosh, mosh_var, mosh_map]
get_balance(st, a) == Get(st.balance, a, 0)
set_balance(st, a, v) == [st EXCEPT !.balance = Put(st.balance, a, v)]
get_nonce(st, a) == Get(st.nonce, a, 0)
set_nonce(st, a, v) == [st EXCEPT !.nonce = Put(st.nonce, a, v)]
increment_nonce(st, a) == set_nonce(st, a, get_nonce(st, a) + 1)
get_token_balance(st, c, a) == Get(st.token_balance, <<c, a>>, 0)
set_token_balance(st, c, a, v) ==
    [st EXCEPT !.token_balance = Put(st.token_balance, <<c, a>>, v)]
save_token(st, token) == [st EXCEPT !.tokens = Put(st.tokens, token.address, token)]
\* save_mosh_contract that also records the saved owner as the creator
save_mosh_contract_owner_as_creator(st, c) ==
    [st EXCEPT !.mosh = Put(st.mosh, c.address, [c EXCEPT !.creator = c.owner])]
save_mosh_contract(st, c) == [st EXCEPT !.mosh = Put(st.mosh, c.address, c)]
get_mosh_var(st, c, var) == Get(st.mosh_var, <<c, var>>, EmptyStr)
has_mosh_var(st, c, var) == <<c, var>> \in DOMAIN st.mosh_var
set_mosh_var(st, c, var, v) == [st EXCEPT !.mosh_var = Put(st.mosh_var, <<c, var>>, v)]
has_mosh_map(st, c, map, k) == <<c, map, key_of(k)>> \in DOMAIN st.mosh_map
get_mosh_map(st, c, map, k) == Get(st.mosh_map, <<c, map, key_of(k)>>, EmptyStr)
set_mosh_map(st, c, map, k, v) ==
    [st EXCEPT !.mosh_map = Put(st.mosh_map, <<c, map, key_of(k)>>, v)]

\* ------------------------------------------------------------ MVM-20 tokens
TokenBase == 100
NumNames == 2
\* "mvm1token" + hex(sha256(creator, name, unix seconds)[..10])
token_address(creator, name, ts) == TokenBase + (creator * NumNames + name) * (MaxTime + 2) + ts

\* create_mvm20_token
create_mvm20_token(st, creator, name, total_supply, ts) ==
    LET contract_address == token_address(creator, name, ts)
        token == [address |-> contract_address, name |-> name, decimals |-> 8,
                  total_supply |-> total_supply * UNIT, creator |-> creator,
                  created_at |-> ts]
    IN  [st |-> set_token_balance(save_token(st, token), contract_address, creator,
                                  token.total_supply),
         address |-> contract_address]

\* transfer_mvm20: both balances are read before either is written
transfer_mvm20(st, contract, from, to, amount) ==
    LET from_balance == get_token_balance(st, contract, from)
        to_balance == get_token_balance(st, contract, to)
    IN  IF from_balance < amount
        THEN [st |-> st, ok |-> FALSE]
        ELSE [st |-> set_token_balance(
                         set_token_balance(st, contract, from, from_balance - amount),
                         contract, to, to_balance + amount),
              ok |-> TRUE]

\* --------------------------------------------------------------------- MVM
ContractBase == 200
MAX_VARIABLES == 10
MAX_MAPPINGS == 5
MAX_FUNCTIONS == 10
MAX_OPS_PER_FUNCTION == 20
MAX_NAME_LENGTH == 32
reserved == {"owner", "creator", "token", "address", "balance"}

\* the strings that start with "mvm1contract"
is_contract_address(a) == a >= ContractBase

\* An operand (Option<serde_json::Value>): t is "none", "num", "str" or, for a
\* string of the form map[key], "idx".  lit is the string itself as a value.
NoOpd == [t |-> "none", s |-> "", lit |-> EmptyStr, map |-> "", key |-> "", keylit |-> EmptyStr]
NumOpd(n) == [NoOpd EXCEPT !.t = "num", !.lit = Num(n)]
StrOpd(s, lit) == [NoOpd EXCEPT !.t = "str", !.s = s, !.lit = lit]
IdxOpd(s, lit, map, key, keylit) ==
    [t |-> "idx", s |-> s, lit |-> lit, map |-> map, key |-> key, keylit |-> keylit]

\* An Operation; "" is an absent var / map / msg / cmp
NoOp == [op |-> "", var |-> "", value |-> NoOpd, map |-> "", key |-> NoOpd, left |-> NoOpd,
         right |-> NoOpd, cmp |-> "", msg |-> "", to |-> NoOpd, amount |-> NoOpd]

VarDef(name, type, has_default, default) ==
    [name |-> name, var_type |-> type, has_default |-> has_default, default |-> default]
MappingDef(name, key_type, value_type) ==
    [name |-> name, key_type |-> key_type, value_type |-> value_type]
FnDef(name, modifiers, args, body) ==
    [name |-> name, modifiers |-> modifiers, args |-> args, body |-> body]

has_variable(c, s) == \E i \in 1..Len(c.variables) : c.variables[i].name = s
find_variable(c, s) ==
    c.variables[CHOOSE i \in 1..Len(c.variables) :
                  /\ c.variables[i].name = s
                  /\ \A j \in 1..(i - 1) : c.variables[j].name # s]
has_mapping(c, s) == \E i \in 1..Len(c.mappings) : c.mappings[i].name = s
find_mapping(c, s) ==
    c.mappings[CHOOSE i \in 1..Len(c.mappings) :
                 /\ c.mappings[i].name = s
                 /\ \A j \in 1..(i - 1) : c.mappings[j].name # s]
has_function(c, m) == \E i \in 1..Len(c.functions) : c.functions[i].name = m
find_function(c, m) ==
    c.functions[CHOOSE i \in 1..Len(c.functions) :
                  /\ c.functions[i].name = m
                  /\ \A j \in 1..(i - 1) : c.functions[j].name # m]

\* MVM::typed_value
typed_value(val, var_type) ==
    IF var_type = "Uint64" THEN Num(parse_u64(val))
    ELSE IF var_type = "Bool" THEN (IF val = TrueStr THEN TrueStr ELSE FalseStr)
    ELSE val

\* MVM::resolve_value for a string that is not of the form map[key]
resolve_name(st, c, ctx, s, lit) ==
    IF s = "msg.sender" THEN str_of(ctx.caller)
    ELSE IF s = "msg.amount" THEN Num(ctx.amount)
    ELSE IF s = "block.height" THEN Num(ctx.block_height)
    ELSE IF s = "block.timestamp" THEN Num(ctx.block_timestamp)
    ELSE IF s = "contract.owner" THEN str_of(c.owner)
    ELSE IF s = "contract.address" THEN str_of(c.address)
    ELSE IF s \in DOMAIN ctx.args THEN ctx.args[s]
    ELSE IF s \in DOMAIN ctx.locals THEN ctx.locals[s]
    ELSE IF has_variable(c, s) THEN get_mosh_var(st, c.address, s)
    ELSE lit

\* MVM::resolve_value
resolve_value(st, c, ctx, v) ==
    IF v.t = "none" THEN Num(0)
    ELSE IF v.t = "num" THEN v.lit
    ELSE IF v.t = "str" THEN resolve_name(st, c, ctx, v.s, v.lit)
    ELSE IF v.s \in {"msg.sender", "msg.amount", "block.height", "block.timestamp",
                     "contract.owner", "contract.address"}
            \/ v.s \in DOMAIN ctx.args \/ v.s \in DOMAIN ctx.locals \/ has_variable(c, v.s)
    THEN resolve_name(st, c, ctx, v.s, v.lit)
    ELSE get_mosh_map(st, c.address, v.map, resolve_name(st, c, ctx, v.key, v.keylit))

\* CallResult::ok / CallResult::err; found = FALSE is Err("Contract not found")
CallOk(st, data, gas) ==
    [st |-> st, found |-> TRUE, success |-> TRUE, error |-> "", gas_used |-> gas, data |-> data]
CallErr(st, msg, gas) ==
    [st |-> st, found |-> TRUE, success |-> FALSE, error |-> msg, gas_used |-> gas,
     data |-> EmptyStr]
SuccessData == Str(52)

\* the comparison of a require op
require_pass(cmp, left, right) ==
    LET c == IF cmp = "" THEN ">" ELSE cmp
        l == parse_u64(left)
        r == parse_u64(right)
    IN  IF c = ">" THEN l > r
        ELSE IF c = ">=" THEN l >= r
        ELSE IF c = "<" THEN l < r
        ELSE IF c = "<=" THEN l <= r
        ELSE IF c \in {"==", "="} THEN left = right
        ELSE IF c = "!=" THEN left # right
        ELSE FALSE

saturating_sub(a, b) == IF a >= b THEN a - b ELSE 0

\* one iteration of the op loop of MVM::call: the store, the context and the return
\* value after the op, and the error message when the op fails ("" when it passes); the
\* u64 sums of add and map_add are those of a build without overflow checks (with
\* them the sum panics, see add_outcomes)
OpOk(st, ctx, ret) == [st |-> st, ctx |-> ctx, ret |-> ret, err |-> ""]
OpErr(st, ctx, ret, msg) == [st |-> st, ctx |-> ctx, ret |-> ret, err |-> msg]

\* the op loop iteration whose transfer reads the recipient before the debit
exec_op_stale_read(st, c, ctx, op, ret) ==
    LET value == resolve_value(st, c, ctx, op.value)
        key == resolve_value(st, c, ctx, op.key)
        cur_var == IF has_mosh_var(st, c.address, op.var)
                   THEN get_mosh_var(st, c.address, op.var) ELSE Num(0)
        cur_map == IF has_mosh_map(st, c.address, op.map, key)
                   THEN get_mosh_map(st, c.address, op.map, key) ELSE Num(0)
    IN  IF op.op = "set"
        THEN OpOk(set_mosh_var(st, c.address, op.var, value), ctx, ret)
        ELSE IF op.op = "add"
        THEN OpOk(set_mosh_var(st, c.address, op.var,
                               Num(u64_add(parse_u64(cur_var), parse_u64(value), FALSE))),
                  ctx, ret)
        ELSE IF op.op = "sub"
        THEN OpOk(set_mosh_var(st, c.address, op.var,
                               Num(saturating_sub(parse_u64(cur_var), parse_u64(value)))),
                  ctx, ret)
        ELSE IF op.op = "map_set"
        THEN OpOk(set_mosh_map(st, c.address, op.map, key, value), ctx, ret)
        ELSE IF op.op = "map_add"
        THEN OpOk(set_mosh_map(st, c.address, op.map, key,
                               Num(u64_add(parse_u64(cur_map), parse_u64(value), FALSE))),
                  ctx, ret)
        ELSE IF op.op = "map_sub"
        THEN OpOk(set_mosh_map(st, c.address, op.map, key,
                               Num(saturating_sub(parse_u64(cur_map), parse_u64(value)))),
                  ctx, ret)
        ELSE IF op.op = "require"
        THEN IF require_pass(op.cmp, resolve_value(st, c, ctx, op.left),
                             resolve_value(st, c, ctx, op.right))
             THEN OpOk(st, ctx, ret)
             ELSE OpErr(st, ctx, ret, IF op.msg = "" THEN "Require failed" ELSE op.msg)
        ELSE IF op.op = "transfer"
        THEN IF c.token = NoAddr THEN OpErr(st, ctx, ret, "No token")
             ELSE
             LET to == key_of(resolve_value(st, c, ctx, op.to))
                 amt_num == parse_u64(resolve_value(st, c, ctx, op.amount))
                 contract_bal == get_token_balance(st, c.token, c.address)
                 st1 == set_token_balance(st, c.token, c.address, contract_bal - amt_num)
                 to_bal == get_token_balance(st, c.token, to)
             IN  IF contract_bal < amt_num THEN OpErr(st, ctx, ret, "Contract balance low")
                 ELSE OpOk(set_token_balance(st1, c.token, to, to_bal + amt_num), ctx, ret)
        ELSE IF op.op = "return"
        THEN OpOk(st, ctx, value)
        ELSE IF op.op = "let"
        THEN OpOk(st, [ctx EXCEPT !.locals = Put(ctx.locals, op.var, value)], ret)
        ELSE OpErr(st, ctx, ret, "Unknown op")

exec_op(st, c, ctx, op, ret) ==
    LET value == resolve_value(st, c, ctx, op.value)
        key == resolve_value(st, c, ctx, op.key)
        cur_var == IF has_mosh_var(st, c.address, op.var)
                   THEN get_mosh_var(st, c.address, op.var) ELSE Num(0)
        cur_map == IF has_mosh_map(st, c.address, op.map, key)
                   THEN get_mosh_map(st, c.address, op.map, key) ELSE Num(0)
    IN  IF op.op = "set"
        THEN OpOk(set_mosh_var(st, c.address, op.var, value), ctx, ret)
        ELSE IF op.op = "add"
        THEN OpOk(set_mosh_var(st, c.address, op.var,
                               Num(u64_add(parse_u64(cur_var), parse_u64(value), FALSE))),
                  ctx, ret)
        ELSE IF op.op = "sub"
        THEN OpOk(set_mosh_var(st, c.address, op.var,
                               Num(saturating_sub(parse_u64(cur_var), parse_u64(value)))),
                  ctx, ret)
        ELSE IF op.op = "map_set"
        THEN OpOk(set_mosh_map(st, c.address, op.map, key, value), ctx, ret)
        ELSE IF op.op = "map_add"
        THEN OpOk(set_mosh_map(st, c.address, op.map, key,
                               Num(u64_add(parse_u64(cur_map), parse_u64(value), FALSE))),
                  ctx, ret)
        ELSE IF op.op = "map_sub"
        THEN OpOk(set_mosh_map(st, c.address, op.map, key,
                               Num(saturating_sub(parse_u64(cur_map), parse_u64(value)))),
                  ctx, ret)
        ELSE IF op.op = "require"
        THEN IF require_pass(op.cmp, resolve_value(st, c, ctx, op.left),
                             resolve_value(st, c, ctx, op.right))
             THEN OpOk(st, ctx, ret)
             ELSE OpErr(st, ctx, ret, IF op.msg = "" THEN "Require failed" ELSE op.msg)
        ELSE IF op.op = "transfer"
        THEN IF c.token = NoAddr THEN OpErr(st, ctx, ret, "No token")
             ELSE
             LET to == key_of(resolve_value(st, c, ctx, op.to))
                 amt_num == parse_u64(resolve_value(st, c, ctx, op.amount))
                 contract_bal == get_token_balance(st, c.token, c.address)
                 st1 == set_token_balance(st, c.token, c.address, contract_bal - amt_num)
                 to_bal == get_token_balance(st1, c.token, to)
             IN  IF contract_bal < amt_num THEN OpErr(st, ctx, ret, "Contract balance low")
                 ELSE OpOk(set_token_balance(st1, c.token, to, to_bal + amt_num), ctx, ret)
        ELSE IF op.op = "return"
        THEN OpOk(st, ctx, value)
        ELSE IF op.op = "let"
        THEN OpOk(st, [ctx EXCEPT !.locals = Put(ctx.locals, op.var, value)], ret)
        ELSE OpErr(st, ctx, ret, "Unknown op")

\* the op loop running every op on the store the call started with
RECURSIVE exec_ops_on_first_store(_, _, _, _, _, _)
exec_ops_on_first_store(st, c, ctx, body, gas0, ret) ==
    IF body = <<>> THEN CallOk(st, ret, gas0)
    ELSE CHOOSE res \in
             {IF r.err # "" THEN CallErr(r.st, r.err, gas0 + 1000)
              ELSE exec_ops_on_first_store(st, c, r.ctx, Tail(body), gas0 + 1000, r.ret) :
              r \in {exec_op(st, c, ctx, Head(body), ret)}} : TRUE

\* the op loop of MVM::call: every write lands in the store as it is made
RECURSIVE exec_ops(_, _, _, _, _, _)
exec_ops(st, c, ctx, body, gas0, ret) ==
    IF body = <<>> THEN CallOk(st, ret, gas0)
    ELSE CHOOSE res \in
             {IF r.err # "" THEN CallErr(r.st, r.err, gas0 + 1000)
              ELSE exec_ops(r.st, c, r.ctx, Tail(body), gas0 + 1000, r.ret) :
              r \in {exec_op(st, c, ctx, Head(body), ret)}} : TRUE

\* the argument map of the execution context: a later parameter of the same name wins
RECURSIVE map_args(_, _, _, _)
map_args(m, defs, args, i) ==
    IF i > Len(defs) THEN m
    ELSE map_args(Put(m, defs[i], IF i <= Len(args) THEN args[i] ELSE EmptyStr),
                  defs, args, i + 1)

\* MVM::call with the auto-setters open to every caller
call_setter_unchecked(st, caller, contract_addr, fn_name, args, amount, blk_height, ts) ==
    IF contract_addr \notin DOMAIN st.mosh
    THEN [st |-> st, found |-> FALSE, success |-> FALSE, error |-> "Contract not found",
          gas_used |-> 0, data |-> EmptyStr]
    ELSE
    LET contract == st.mosh[contract_addr]
        var_name == fn_name.name
    IN  IF fn_name.pre = "get"
        THEN LET gas == 5000 + 1000
             IN  IF var_name = "owner" THEN CallOk(st, str_of(contract.owner), gas)
                 ELSE IF var_name = "creator" THEN CallOk(st, str_of(contract.creator), gas)
                 ELSE IF var_name = "token" THEN CallOk(st, str_of(contract.token), gas)
                 ELSE IF var_name = "address" THEN CallOk(st, str_of(contract.address), gas)
                 ELSE IF has_variable(contract, var_name)
                 THEN CallOk(st, typed_value(get_mosh_var(st, contract_addr, var_name),
                                             find_variable(contract, var_name).var_type), gas)
                 ELSE IF has_mapping(contract, var_name)
                 THEN IF args = <<>> THEN CallErr(st, "Missing key", gas)
                      ELSE CallOk(st, typed_value(
                                        get_mosh_map(st, contract_addr, var_name, args[1]),
                                        find_mapping(contract, var_name).value_type), gas)
                 ELSE CallErr(st, "Unknown", gas)
        ELSE IF fn_name.pre = "set"
        THEN LET gas == 5000 + 5000
             IN  IF var_name = "owner"
                 THEN IF args = <<>> THEN CallErr(st, "Missing address", gas)
                      ELSE CallOk(save_mosh_contract(
                                      st, [contract EXCEPT !.owner = key_of(args[1])]),
                                  args[1], gas)
                 ELSE IF has_variable(contract, var_name)
                 THEN IF args = <<>> THEN CallErr(st, "Missing value", gas)
                      ELSE CallOk(set_mosh_var(st, contract_addr, var_name, args[1]),
                                  typed_value(args[1],
                                              find_variable(contract, var_name).var_type),
                                  gas)
                 ELSE IF has_mapping(contract, var_name)
                 THEN IF Len(args) < 2 THEN CallErr(st, "Need: key, value", gas)
                      ELSE CallOk(set_mosh_map(st, contract_addr, var_name, args[1], args[2]),
                                  args[2], gas)
                 ELSE CallErr(st, "Unknown", gas)
        ELSE IF ~has_function(contract, fn_name)
        THEN CallErr(st, "Function not found", 5000)
        ELSE
        LET func == find_function(contract, fn_name)
            gas == 5000 + 10000
            payable == "Payable" \in func.modifiers
            ctx == [caller |-> caller, amount |-> amount, block_height |-> blk_height,
                    block_timestamp |-> ts,
                    args |-> map_args(EmptyMap, func.args, args, 1), locals |-> EmptyMap]
            caller_bal == get_token_balance(st, contract.token, caller)
            st1 == set_token_balance(st, contract.token, caller, caller_bal - amount)
            st2 == set_token_balance(st1, contract.token, contract_addr,
                        get_token_balance(st1, contract.token, contract_addr) + amount)
        IN  IF "OnlyOwner" \in func.modifiers /\ caller # contract.owner
            THEN CallErr(st, "Only owner", gas)
            ELSE IF payable /\ contract.token = NoAddr
            THEN CallErr(st, "No token linked", gas)
            ELSE IF ~payable /\ amount > 0
            THEN CallErr(st, "Function not payable", gas)
            ELSE IF payable /\ amount > 0
            THEN IF caller_bal < amount THEN CallErr(st, "Insufficient", gas)
                 ELSE exec_ops(st2, contract, ctx, func.body, gas, SuccessData)
            ELSE exec_ops(st, contract, ctx, func.body, gas, SuccessData)

\* MVM::call; height and ts are the store's height and the clock reading
call(st, caller, contract_addr, fn_name, args, amount, blk_height, ts) ==
    IF contract_addr \notin DOMAIN st.mosh
    THEN [st |-> st, found |-> FALSE, success |-> FALSE, error |-> "Contract not found",
          gas_used |-> 0, data |-> EmptyStr]
    ELSE
    LET contract == st.mosh[contract_addr]
        var_name == fn_name.name
    IN  IF fn_name.pre = "get"
        THEN LET gas == 5000 + 1000
             IN  IF var_name = "owner" THEN CallOk(st, str_of(contract.owner), gas)
                 ELSE IF var_name = "creator" THEN CallOk(st, str_of(contract.creator), gas)
                 ELSE IF var_name = "token" THEN CallOk(st, str_of(contract.token), gas)
                 ELSE IF var_name = "address" THEN CallOk(st, str_of(contract.address), gas)
                 ELSE IF has_variable(contract, var_name)
                 THEN CallOk(st, typed_value(get_mosh_var(st, contract_addr, var_name),
                                             find_variable(contract, var_name).var_type), gas)
                 ELSE IF has_mapping(contract, var_name)
                 THEN IF args = <<>> THEN CallErr(st, "Missing key", gas)
                      ELSE CallOk(st, typed_value(
                                        get_mosh_map(st, contract_addr, var_name, args[1]),
                                        find_mapping(contract, var_name).value_type), gas)
                 ELSE CallErr(st, "Unknown", gas)
        ELSE IF fn_name.pre = "set"
        THEN LET gas == 5000 + 5000
             IN  IF caller # contract.owner THEN CallErr(st, "Only owner", gas)
                 ELSE IF var_name = "owner"
                 THEN IF args = <<>> THEN CallErr(st, "Missing address", gas)
                      ELSE CallOk(save_mosh_contract(
                                      st, [contract EXCEPT !.owner = key_of(args[1])]),
                                  args[1], gas)
                 ELSE IF has_variable(contract, var_name)
                 THEN IF args = <<>> THEN CallErr(st, "Missing value", gas)
                      ELSE CallOk(set_mosh_var(st, contract_addr, var_name, args[1]),
                                  typed_value(args[1],
                                              find_variable(contract, var_name).var_type),
                                  gas)
                 ELSE IF has_mapping(contract, var_name)
                 THEN IF Len(args) < 2 THEN CallErr(st, "Need: key, value", gas)
                      ELSE CallOk(set_mosh_map(st, contract_addr, var_name, args[1], args[2]),
                                  args[2], gas)
                 ELSE CallErr(st, "Unknown", gas)
        ELSE IF ~has_function(contract, fn_name)
        THEN CallErr(st, "Function not found", 5000)
        ELSE
        LET func == find_function(contract, fn_name)
            gas == 5000 + 10000
            payable == "Payable" \in func.modifiers
            ctx == [caller |-> caller, amount |-> amount, block_height |-> blk_height,
                    block_timestamp |-> ts,
                    args |-> map_args(EmptyMap, func.args, args, 1), locals |-> EmptyMap]
            caller_bal == get_token_balance(st, contract.token, caller)
            st1 == set_token_balance(st, contract.token, caller, caller_bal - amount)
            st2 == set_token_balance(st1, contract.token, contract_addr,
                        get_token_balance(st1, contract.token, contract_addr) + amount)
        IN  IF "OnlyOwner" \in func.modifiers /\ caller # contract.owner
            THEN CallErr(st, "Only owner", gas)
            ELSE IF payable /\ contract.token = NoAddr
            THEN CallErr(st, "No token linked", gas)
            ELSE IF ~payable /\ amount > 0
            THEN CallErr(st, "Function not payable", gas)
            ELSE IF payable /\ amount > 0
            THEN IF caller_bal < amount THEN CallErr(st, "Insufficient", gas)
                 ELSE exec_ops(st2, contract, ctx, func.body, gas, SuccessData)
            ELSE exec_ops(st, contract, ctx, func.body, gas, SuccessData)

\* the duplicate-name check of MVM::deploy over variables then mappings
RECURSIVE has_duplicate(_, _)
has_duplicate(names, seen) ==
    IF names = <<>> THEN FALSE
    ELSE Head(names) \in seen \/ has_duplicate(Tail(names), seen \cup {Head(names)})

\* MVM::deploy; def is [variables, mappings, functions]
deploy(st, creator, name_len, token, def, ts) ==
    LET variables == def.variables
        mappings == def.mappings
        functions == def.functions
        names == [i \in 1..(Len(variables) + Len(mappings)) |->
                    IF i <= Len(variables) THEN variables[i].name
                    ELSE mappings[i - Len(variables)].name]
        address == ContractBase + Cardinality(DOMAIN st.mosh)
        contract == [address |-> address, name_len |-> name_len, creator |-> creator,
                     owner |-> creator, created_at |-> ts, token |-> token,
                     variables |-> variables, mappings |-> mappings,
                     functions |-> functions]
        zero(t) == IF t = "Uint64" THEN Num(0) ELSE IF t = "Bool" THEN FalseStr ELSE EmptyStr
        init_vars[i \in 0..Len(variables)] ==
            IF i = 0 THEN save_mosh_contract(st, contract)
            ELSE set_mosh_var(init_vars[i - 1], address, variables[i].name,
                              IF variables[i].has_default THEN variables[i].default
                              ELSE zero(variables[i].var_type))
    IN  IF name_len = 0 \/ name_len > MAX_NAME_LENGTH
           \/ Len(variables) > MAX_VARIABLES \/ Len(mappings) > MAX_MAPPINGS
           \/ Len(functions) > MAX_FUNCTIONS
           \/ (\E i \in 1..Len(variables) : variables[i].name \in reserved)
           \/ has_duplicate(names, {})
           \/ (\E i \in 1..Len(functions) : Len(functions[i].body) > MAX_OPS_PER_FUNCTION)
           \/ (token # NoAddr /\ token \notin DOMAIN st.tokens)
        THEN [st |-> st, ok |-> FALSE, address |-> NoAddr]
        ELSE [st |-> init_vars[Len(variables)], ok |-> TRUE, address |-> address]

\* MVM::execute_call (the legacy Call kind)
execute_call(st, contract, method, args, blk_height, ts) ==
    IF is_contract_address(contract)
    THEN LET r == call(st, 0, contract, method, args, 0, blk_height, ts)
         IN  [st |-> r.st, ok |-> r.found /\ r.success]
    ELSE IF method = Method("", "set") /\ args # <<>>
    THEN [st |-> set_mosh_var(st, contract, "value", args[1]), ok |-> TRUE]
    ELSE IF method = Method("", "get")
    THEN [st |-> st, ok |-> TRUE]
    ELSE [st |-> st, ok |-> FALSE]

\* --------------------------------------------------------------- view path
\* the responses of read_contract; an error response carries no gas field (-1)
Null == Str(53)
ReadOk(st, result) == [st |-> st, success |-> TRUE, error |-> "", result |-> result, gas |-> 0]
ReadErr(st, error) ==
    [st |-> st, success |-> FALSE, error |-> error, result |-> Null, gas |-> -1]

\* the position of the first parameter named s, 0 when there is none
position(defs, s) ==
    IF \E i \in 1..Len(defs) : defs[i] = s
    THEN CHOOSE i \in 1..Len(defs) : defs[i] = s /\ \A j \in 1..(i - 1) : defs[j] # s
    ELSE 0

\* an op of a View body that read_contract answers: a return of map[key] or of a
\* variable
view_returns(contract, op) ==
    /\ op.op = "return"
    /\ \/ op.value.t = "idx"
       \/ op.value.t = "str" /\ has_variable(contract, op.value.s)

\* the value read_contract answers for such an op
view_result(st, contract, func, args, op) ==
    IF op.value.t = "idx"
    THEN LET arg_idx == position(func.args, op.value.key)
             key == IF arg_idx > 0
                    THEN (IF arg_idx <= Len(args) THEN args[arg_idx] ELSE EmptyStr)
                    ELSE op.value.keylit
         IN  IF has_mosh_map(st, contract.address, op.value.map, key)
             THEN get_mosh_map(st, contract.address, op.value.map, key) ELSE Num(0)
    ELSE IF has_mosh_var(st, contract.address, op.value.s)
         THEN get_mosh_var(st, contract.address, op.value.s) ELSE Num(0)

\* read_contract without the check of the View modifier
read_contract_any_function(st, address, method, args) ==
    IF address \notin DOMAIN st.mosh THEN ReadErr(st, "contract_not_found")
    ELSE
    LET contract == st.mosh[address]
        var_name == method.name
    IN  IF has_function(contract, method)
        THEN LET func == find_function(contract, method)
                 hits == {i \in 1..Len(func.body) : view_returns(contract, func.body[i])}
             IN  IF hits = {} THEN ReadOk(st, Null)
                 ELSE ReadOk(st, view_result(st, contract, func, args,
                                 func.body[CHOOSE i \in hits : \A j \in hits : i <= j]))
        ELSE IF method.pre = "get"
        THEN IF var_name = "owner" THEN ReadOk(st, str_of(contract.owner))
             ELSE IF var_name = "creator" THEN ReadOk(st, str_of(contract.creator))
             ELSE IF var_name = "token" THEN ReadOk(st, str_of(contract.token))
             ELSE IF var_name = "address" THEN ReadOk(st, str_of(contract.address))
             ELSE IF has_variable(contract, var_name)
             THEN ReadOk(st, typed_value(get_mosh_var(st, address, var_name),
                                         find_variable(contract, var_name).var_type))
             ELSE IF has_mapping(contract, var_name)
             THEN IF args = <<>> THEN ReadErr(st, "missing_key")
                  ELSE ReadOk(st, typed_value(get_mosh_map(st, address, var_name, args[1]),
                                              find_mapping(contract, var_name).value_type))
             ELSE ReadErr(st, "unknown_getter")
        ELSE IF method.pre = "set" THEN ReadErr(st, "write_function")
        ELSE ReadErr(st, "unknown_method")

\* read_contract (GET /contract/:address/call/:method): under the state read lock
read_contract(st, address, method, args) ==
    IF address \notin DOMAIN st.mosh THEN ReadErr(st, "contract_not_found")
    ELSE
    LET contract == st.mosh[address]
        var_name == method.name
    IN  IF has_function(contract, method)
        THEN LET func == find_function(contract, method)
                 hits == {i \in 1..Len(func.body) : view_returns(contract, func.body[i])}
             IN  IF "View" \notin func.modifiers THEN ReadErr(st, "not_view_function")
                 ELSE IF hits = {} THEN ReadOk(st, Null)
                 ELSE ReadOk(st, view_result(st, contract, func, args,
                                 func.body[CHOOSE i \in hits : \A j \in hits : i <= j]))
        ELSE IF method.pre = "get"
        THEN IF var_name = "owner" THEN ReadOk(st, str_of(contract.owner))
             ELSE IF var_name = "creator" THEN ReadOk(st, str_of(contract.creator))
             ELSE IF var_name = "token" THEN ReadOk(st, str_of(contract.token))
             ELSE IF var_name = "address" THEN ReadOk(st, str_of(contract.address))
             ELSE IF has_variable(contract, var_name)
             THEN ReadOk(st, typed_value(get_mosh_var(st, address, var_name),
                                         find_variable(contract, var_name).var_type))
             ELSE IF has_mapping(contract, var_name)
             THEN IF args = <<>> THEN ReadErr(st, "missing_key")
                  ELSE ReadOk(st, typed_value(get_mosh_map(st, address, var_name, args[1]),
                                              find_mapping(contract, var_name).value_type))
             ELSE ReadErr(st, "unknown_getter")
        ELSE IF method.pre = "set" THEN ReadErr(st, "write_function")
        ELSE ReadErr(st, "unknown_method")

\* ------------------------------------------------------- blockchain engine
\* the gas table at the head of execute_transaction
base_gas(tx_type) ==
    IF tx_type = "Transfer" THEN 21000
    ELSE IF tx_type = "Deploy" THEN 200000
    ELSE IF tx_type = "Call" THEN 50000
    ELSE IF tx_type = "CreateToken" THEN 100000
    ELSE IF tx_type = "TransferToken" THEN 65000
    ELSE IF tx_type = "DeployContract" THEN 150000
    ELSE 50000

ExecOk(st, tx) == [st |-> st, tx |-> tx, ok |-> TRUE, error |-> NoError]
ExecErr(st, tx, e) == [st |-> st, tx |-> tx, ok |-> FALSE, error |-> e]

\* Blockchain::execute_transaction; blk_height is the store's height and ts the clock
execute_transaction(st, tx0, blk_height, ts) ==
    LET tx == [tx0 EXCEPT !.gas_used = base_gas(tx0.tx_type)]
        expected_nonce == get_nonce(st, tx.from)
        gas_fee == tx.gas_used * tx.gas_price
        total_cost == IF tx.tx_type = "Transfer" THEN native_add(tx.value, gas_fee)
                                                 ELSE gas_fee
        from_balance == get_balance(st, tx.from)
        d == tx.data
        \* the gas fee deducted, as every kind but Transfer does first
        st1 == set_balance(st, tx.from, from_balance - gas_fee)
    IN  IF verify_signature(tx) = "bad"
        THEN ExecErr(st, tx, TxError("InvalidSignature", 0, 0,
                                     "Signature does not match sender address"))
        ELSE IF verify_signature(tx) # "ok"
        THEN ExecErr(st, tx, TxError("InvalidSignature", 0, 0, "decode"))
        ELSE IF tx.nonce # expected_nonce
        THEN ExecErr(st, tx, TxError("InvalidNonce", expected_nonce, tx.nonce, ""))
        ELSE IF from_balance < total_cost
        THEN ExecErr(st, tx, TxError("InsufficientBalance", total_cost, from_balance, ""))
        ELSE IF tx.tx_type = "Transfer"
        THEN IF tx.to = NoAddr
             THEN ExecErr(st, tx, TxError("InvalidRecipient", 0, 0,
                                          "Missing recipient address"))
             ELSE IF ~address_is_valid(tx.to)
             THEN ExecErr(st, tx, TxError("InvalidAddress", tx.to, 0, ""))
             ELSE LET to_balance == get_balance(st, tx.to)
                  IN  ExecOk(increment_nonce(
                                 set_balance(set_balance(st, tx.from, from_balance - total_cost),
                                             tx.to, native_add(to_balance, tx.value)),
                                 tx.from), tx)
        ELSE IF tx.tx_type = "Deploy"
        THEN ExecOk(increment_nonce(st1, tx.from), tx)
        ELSE IF tx.tx_type = "Call"
        THEN IF d.kind = "Call"
             THEN LET r == execute_call(st1, d.contract, d.method, d.args, blk_height, ts)
                  IN  IF r.ok THEN ExecOk(increment_nonce(r.st, tx.from), tx)
                      ELSE ExecErr(r.st, tx, TxError("ContractError", 0, 0, "call"))
             ELSE ExecOk(st, tx)
        ELSE IF tx.tx_type = "CreateToken"
        THEN IF d.kind = "CreateToken"
             THEN LET r == create_mvm20_token(st1, tx.from, d.name, d.total_supply, ts)
                  IN  ExecOk(increment_nonce(r.st, tx.from), [tx EXCEPT !.to = r.address])
             ELSE ExecOk(st, tx)
        ELSE IF tx.tx_type = "TransferToken"
        THEN IF d.kind = "TransferToken"
             THEN LET token_balance == get_token_balance(st1, d.contract, tx.from)
                  IN  IF d.contract \notin DOMAIN st1.tokens
                      THEN ExecErr(st1, tx, TxError("TokenNotFound", d.contract, 0, ""))
                      ELSE IF token_balance < d.amount
                      THEN ExecErr(st1, tx, TxError("InsufficientTokenBalance", d.amount,
                                                    token_balance, ""))
                      ELSE IF ~address_is_valid(d.to)
                      THEN ExecErr(st1, tx, TxError("InvalidAddress", d.to, 0, ""))
                      ELSE LET r == transfer_mvm20(st1, d.contract, tx.from, d.to, d.amount)
                           IN  IF r.ok THEN ExecOk(increment_nonce(r.st, tx.from), tx)
                               ELSE ExecErr(r.st, tx, TxError("ContractError", 0, 0,
                                                             "Insufficient token balance"))
             ELSE ExecOk(st, tx)
        ELSE IF tx.tx_type = "DeployContract"
        THEN IF d.kind = "DeployContract"
             THEN LET r == deploy(st1, tx.from, d.name_len, d.token, d.def, ts)
                  IN  IF r.ok
                      THEN ExecOk(increment_nonce(r.st, tx.from), [tx EXCEPT !.to = r.address])
                      ELSE ExecErr(r.st, tx, TxError("ContractError", 0, 0, "deploy"))
             ELSE ExecOk(st, tx)
        ELSE IF d.kind = "CallContract"
        THEN LET r == call(st1, tx.from, d.contract, d.method, d.args, d.amount,
                           blk_height, ts)
                 tx1 == [tx EXCEPT !.gas_used = r.gas_used]
             IN  IF ~r.found
                 THEN ExecErr(r.st, tx, TxError("ContractError", 0, 0, r.error))
                 ELSE IF ~r.success
                 THEN ExecErr(r.st, tx1, TxError("ContractError", 0, 0, r.error))
                 ELSE ExecOk(increment_nonce(r.st, tx.from), [tx1 EXCEPT !.to = d.contract])
        ELSE ExecOk(st, tx)

\* the transaction loop of produce_block pushing only the successful transactions
RECURSIVE execute_all_drop_failed(_, _, _, _, _)
execute_all_drop_failed(st, txs, done, blk_height, ts) ==
    IF txs = <<>> THEN [st |-> st, txs |-> done]
    ELSE CHOOSE res \in
             {execute_all_drop_failed(r.st, Tail(txs),
                          IF r.ok THEN Append(done, [r.tx EXCEPT !.status = "Success"])
                          ELSE done,
                          blk_height, ts) :
              r \in {execute_transaction(st, Head(txs), blk_height, ts)}} : TRUE

\* the transaction loop of produce_block: [st, txs] after executing txs in order
RECURSIVE execute_all(_, _, _, _, _)
execute_all(st, txs, done, blk_height, ts) ==
    IF txs = <<>> THEN [st |-> st, txs |-> done]
    ELSE CHOOSE res \in
             {execute_all(r.st, Tail(txs),
                          Append(done, IF r.ok THEN [r.tx EXCEPT !.status = "Success"]
                                       ELSE [r.tx EXCEPT !.status = "Failed",
                                                         !.error = r.error]),
                          blk_height, ts) :
              r \in {execute_transaction(st, Head(txs), blk_height, ts)}} : TRUE

\* floor(a * b / c), computed on quotient and remainder to keep the products small
mul_div(a, b, c) == (a \div c) * b + ((a % c) * b) \div c

\* ------------------------------------------------------------------- state
\* state_lock is the readers-writer lock around the store and producer the position
\* of the block producer inside produce_block; faucet_claim holds the faucet:<address>
\* records of the store, the time of the last claim of each address
VARIABLES balance, nonce, tokens, token_balance, mosh, mosh_var, mosh_map,
          height, total_supply, blocks, mempool, now, state_lock, producer,
          faucet_claim

vars == <<balance, nonce, tokens, token_balance, mosh, mosh_var, mosh_map,
          height, total_supply, blocks, mempool, now, state_lock, producer, faucet_claim>>

store == [balance |-> balance, nonce |-> nonce, tokens |-> tokens,
          token_balance |-> token_balance, mosh |-> mosh, mosh_var |-> mosh_var,
          mosh_map |-> mosh_map]

\* Blockchain::new on an empty store, then Mempool::new
Init ==
    /\ now = 0
    /\ blocks = Put(EmptyMap, 0, genesis(master_address, master_balance * UNIT, 0))
    /\ balance = Put(EmptyMap, master_address, master_balance * UNIT)
    /\ height = 0
    /\ nonce = EmptyMap
    /\ tokens = EmptyMap
    /\ token_balance = EmptyMap
    /\ mosh = EmptyMap
    /\ mosh_var = EmptyMap
    /\ mosh_map = EmptyMap
    /\ total_supply = 0
    /\ mempool = Mempool_new
    /\ state_lock = [writer |-> FALSE, readers |-> 0]
    /\ producer = [pc |-> "idle", txs |-> <<>>, executed_txs |-> <<>>, base |-> store,
                   steps |-> <<>>, t |-> 0]
    /\ faucet_claim = EmptyMap

\* Blockchain::add_transaction, as the API handler and a peer's SubmitTx call it
add_transaction(tx) ==
    /\ mempool.count < MaxPending
    /\ mempool' = add(mempool, tx).mp
    /\ UNCHANGED <<balance, nonce, tokens, token_balance, mosh, mosh_var, mosh_map,
                   height, total_supply, blocks, now, state_lock, producer, faucet_claim>>

\* Blockchain::produce_block without the set_height that follows save_block
produce_block_no_set_height(t) ==
    /\ height < MaxHeight
    /\ \E d \in {drain_for_block(mempool, max_txs_per_block)} :
       \E r \in {execute_all(store, d.txs, <<>>, height, t)} :
       \E reward \in {block_reward * UNIT} :
       \E validator_reward \in {mul_div(reward, validator_percent, 100)} :
       \E block \in {block_new(height + 1, blocks[height].hash, master_address, r.txs,
                               [validator_reward |-> validator_reward,
                                total_minted |-> reward], gas_limit, t)} :
       \E st2 \in {set_balance(r.st, master_address,
                               native_add(get_balance(r.st, master_address), validator_reward))} :
           /\ mempool' = d.mp
           /\ blocks' = Put(blocks, block.height, block)
           /\ height' = height
           /\ balance' = st2.balance
           /\ nonce' = st2.nonce
           /\ tokens' = st2.tokens
           /\ token_balance' = st2.token_balance
           /\ mosh' = st2.mosh
           /\ mosh_var' = st2.mosh_var
           /\ mosh_map' = st2.mosh_map
           /\ total_supply' = total_supply + block.rewards.total_minted
    /\ now' = t
    /\ UNCHANGED <<state_lock, producer, faucet_claim>>

\* Blockchain::produce_block, one tick of the producer loop; t is the clock reading
produce_block(t) ==
    /\ height < MaxHeight
    /\ \E d \in {drain_for_block(mempool, max_txs_per_block)} :
       \E r \in {execute_all(store, d.txs, <<>>, height, t)} :
       \E reward \in {block_reward * UNIT} :
       \E validator_reward \in {mul_div(reward, validator_percent, 100)} :
       \E block \in {block_new(height + 1, blocks[height].hash, master_address, r.txs,
                               [validator_reward |-> validator_reward,
                                total_minted |-> reward], gas_limit, t)} :
       \E st2 \in {set_balance(r.st, master_address,
                               native_add(get_balance(r.st, master_address), validator_reward))} :
           /\ mempool' = d.mp
           /\ blocks' = Put(blocks, block.height, block)
           /\ height' = height + 1
           /\ balance' = st2.balance
           /\ nonce' = st2.nonce
           /\ tokens' = st2.tokens
           /\ token_balance' = st2.token_balance
           /\ mosh' = st2.mosh
           /\ mosh_var' = st2.mosh_var
           /\ mosh_map' = st2.mosh_map
           /\ total_supply' = total_supply + block.rewards.total_minted
    /\ now' = t
    /\ UNCHANGED <<state_lock, producer, faucet_claim>>

\* ---------------------------------------------------- submitted transactions
Nonces == 0..MaxNonce

\* a transaction whose hash field is not the hash of its fields, as a peer's SubmitTx
\* message can carry it: it bears the hash of the transfer from address 2
forged_tx ==
    [NewTx("Transfer", 1, 2, 2 * UNIT, 0, NoData, 0, "ok") EXCEPT
        !.hash = tx_calculate_hash(NewTx("Transfer", 2, 1, UNIT, 0, NoData, 0, "ok"))]

\* transfers between the master and address 2 (which starts without funds), a
\* CreateToken that carries no data and the forged transaction
NativeTxs ==
    {NewTx("Transfer", 1, 2, UNIT, n, NoData, 0, "ok") : n \in Nonces}
    \cup {NewTx("Transfer", 2, 1, UNIT, 0, NoData, 0, "ok"),
          NewTx("CreateToken", 1, NoAddr, 0, 0, NoData, 0, "ok"),
          forged_tx}

Submit == \E tx \in NativeTxs : add_transaction(tx)
Tick == \E t \in now..MaxTime : produce_block(t)

Next == Submit \/ Tick

Spec == Init /\ [][Next]_vars

\* the chain with a producer that keeps ticking: the producer task sleeps block_time
\* seconds and calls produce_block, in a loop that nothing ends (main.rs 97-121)
SpecLive == Init /\ [][Next]_vars /\ WF_vars(Tick)

\* ------------------------------------------------ token and contract inputs
\* the token the master creates under name 1 in a block of time 0, and the first
\* contract deployed
demo_token == token_address(master_address, 1, 0)
vault == ContractBase

\* a contract linked to the token: deposit is payable and withdraw sends one unit
\* of the contract's tokens to the caller
vault_def ==
    [variables |-> <<>>, mappings |-> <<>>,
     functions |-> <<FnDef(Method("", "deposit"), {"Payable"}, <<>>, <<>>),
                     FnDef(Method("", "withdraw"), {}, <<>>,
                           <<[NoOp EXCEPT !.op = "transfer",
                                          !.to = StrOpd("msg.sender", Str(60)),
                                          !.amount = NumOpd(UNIT)]>>)>>]

CreateTokenData(name, supply) ==
    [NoData EXCEPT !.kind = "CreateToken", !.name = name, !.total_supply = supply]
TransferTokenData(contract, to, amount) ==
    [NoData EXCEPT !.kind = "TransferToken", !.contract = contract, !.to = to,
                   !.amount = amount]
DeployContractData(name_len, token, def) ==
    [NoData EXCEPT !.kind = "DeployContract", !.name_len = name_len, !.token = token,
                   !.def = def]
CallContractData(contract, method, args, amount) ==
    [NoData EXCEPT !.kind = "CallContract", !.contract = contract, !.method = method,
                   !.args = args, !.amount = amount]

\* the master creates the token, sends tokens to address 2 or to itself, deploys the
\* vault linked to the token or to no token, deposits into it and withdraws from it
TokenTxs ==
    {NewTx("CreateToken", 1, NoAddr, 0, 0, CreateTokenData(1, 3), 0, "ok"),
     NewTx("TransferToken", 1, 2, 0, 1, TransferTokenData(demo_token, 2, UNIT), 0, "ok"),
     NewTx("TransferToken", 1, 1, 0, 1, TransferTokenData(demo_token, 1, UNIT), 0, "ok"),
     NewTx("DeployContract", 1, NoAddr, 0, 1,
           DeployContractData(5, demo_token, vault_def), 0, "ok"),
     NewTx("DeployContract", 1, NoAddr, 0, 1,
           DeployContractData(5, NoAddr, vault_def), 0, "ok"),
     NewTx("CallContract", 1, vault, 0, 2,
           CallContractData(vault, Method("", "deposit"), <<>>, 2 * UNIT), 0, "ok"),
     NewTx("CallContract", 1, vault, 0, 3,
           CallContractData(vault, Method("", "withdraw"), <<>>, 0), 0, "ok")}

SubmitToken == \E tx \in TokenTxs : add_transaction(tx)

NextToken == SubmitToken \/ Tick

SpecToken == Init /\ [][NextToken]_vars

\* the token and vault transactions without the TransferToken ones
VaultTxs == {tx \in TokenTxs : tx.tx_type # "TransferToken"}

SubmitVault == \E tx \in VaultTxs : add_transaction(tx)

NextVault == SubmitVault \/ Tick

SpecVault == Init /\ [][NextVault]_vars

\* ------------------------------------------------------------- contract inputs
registry == ContractBase

\* a contract without a token: a counter, a mapping of votes, a View function
\* whose body writes the counter, a plain function that increments it, a View
\* function named like the counter's auto-setter and a View function that
\* returns the votes of its parameter
registry_def ==
    [variables |-> <<VarDef("count", "Uint64", TRUE, Num(0))>>,
     mappings |-> <<MappingDef("votes", "Address", "Uint64")>>,
     functions |->
        <<FnDef(Method("", "peek"), {"View"}, <<>>,
                <<[NoOp EXCEPT !.op = "set", !.var = "count", !.value = NumOpd(7)],
                  [NoOp EXCEPT !.op = "return", !.value = StrOpd("count", Str(61))]>>),
          FnDef(Method("", "bump"), {}, <<>>,
                <<[NoOp EXCEPT !.op = "add", !.var = "count", !.value = NumOpd(1)]>>),
          FnDef(Method("set", "count"), {"View"}, <<>>,
                <<[NoOp EXCEPT !.op = "return", !.value = StrOpd("count", Str(61))]>>),
          FnDef(Method("", "tally"), {"View"}, <<"who">>,
                <<[NoOp EXCEPT !.op = "return",
                               !.value = IdxOpd("votes[who]", Str(62), "votes", "who",
                                                Str(63))]>>)>>]

CallTx(n, method, args) ==
    NewTx("CallContract", 1, registry, 0, n,
          CallContractData(registry, method, args, 0), 0, "ok")

\* the master deploys the registry, then hands it to address 2 or calls peek,
\* then uses the counter's setter or calls peek
ContractTxs ==
    {NewTx("DeployContract", 1, NoAddr, 0, 0,
           DeployContractData(8, NoAddr, registry_def), 0, "ok"),
     CallTx(1, Method("set", "owner"), <<Str(2)>>),
     CallTx(1, Method("", "peek"), <<>>),
     CallTx(2, Method("set", "count"), <<Num(5)>>),
     CallTx(2, Method("", "peek"), <<>>)}

SubmitContract == \E tx \in ContractTxs : add_transaction(tx)

NextContract == SubmitContract \/ Tick

SpecContract == Init /\ [][NextContract]_vars

\* ----------------------------------------------------------------- gate inputs
\* a transfer of the master, also with a signature that does not decode ("err")
\* and, at a nonce ahead of the stored one, with one that does not match
\* ("bad"); a transfer and a CreateToken without data from address 2, which
\* starts without funds
GateTxs ==
    {NewTx("Transfer", 1, 2, UNIT, 0, NoData, 0, "ok"),
     NewTx("Transfer", 1, 2, UNIT, 0, NoData, 0, "err"),
     NewTx("Transfer", 1, 2, UNIT, MaxNonce, NoData, 0, "bad"),
     NewTx("Transfer", 2, 1, UNIT, 0, NoData, 0, "ok"),
     NewTx("CreateToken", 2, NoAddr, 0, MaxNonce, NoData, 0, "ok")}

SubmitGate == \E tx \in GateTxs : add_transaction(tx)

NextGate == SubmitGate \/ Tick

SpecGate == Init /\ [][NextGate]_vars

\* ------------------------------------------------------------- transfer inputs
\* transfers of the master to address 2, to itself, without a recipient and
\* to a string that is no address
TransferTxs ==
    {NewTx("Transfer", 1, to, UNIT, n, NoData, 0, "ok") :
        to \in {1, 2}, n \in Nonces}
    \cup {NewTx("Transfer", 1, to, UNIT, 0, NoData, 0, "ok") : to \in {NoAddr, InvalidAddr}}

SubmitTransfer == \E tx \in TransferTxs : add_transaction(tx)

NextTransfer == SubmitTransfer \/ Tick

SpecTransfer == Init /\ [][NextTransfer]_vars

\* ---------------------------------------------------------------- nonce inputs
\* A peer's SubmitTx reaches add_transaction without any validation (star.rs
\* 132-146): it may carry any u64 as nonce, the largest included.
NonceTxs ==
    {NewTx("Transfer", 1, 2, UNIT, n, NoData, t, "ok") :
        n \in Nonces \cup {U64_MAX}, t \in Times}
    \cup {NewTx("Transfer", 2, 1, UNIT, 0, NoData, 0, "ok")}

SubmitNonce == \E tx \in NonceTxs : add_transaction(tx)

NextNonce == SubmitNonce \/ Tick

SpecNonce == Init /\ [][NextNonce]_vars

\* ------------------------------------------------------------ the API ingress
\* submit_transaction of the HTTP API (POST /tx) on a request carrying the fields
\* of tx: the response's error ("" on success) and the mempool after it
submit_transaction(st, mp, tx) ==
    IF ~address_is_valid(tx.from) \/ (tx.to # NoAddr /\ ~address_is_valid(tx.to))
    THEN [mp |-> mp, error |-> "invalid_address"]
    ELSE IF tx.nonce # get_nonce(st, tx.from)
    THEN [mp |-> mp, error |-> "invalid_nonce"]
    ELSE IF tx.tx_type = "Transfer" /\ tx.to = NoAddr
    THEN [mp |-> mp, error |-> "invalid_data"]
    ELSE IF verify_signature(tx) = "bad"
    THEN [mp |-> mp, error |-> "invalid_signature"]
    ELSE IF verify_signature(tx) # "ok"
    THEN [mp |-> mp, error |-> "signature_error"]
    ELSE LET r == add(mp, tx)
         IN  [mp |-> r.mp, error |-> IF r.res = "Added" THEN "" ELSE "tx_failed"]

\* a request to the API carrying one of the gate transactions
SubmitApi ==
    \E tx \in GateTxs :
        /\ mempool.count < MaxPending
        /\ mempool' = submit_transaction(store, mempool, tx).mp
        /\ UNCHANGED <<balance, nonce, tokens, token_balance, mosh, mosh_var, mosh_map,
                       height, total_supply, blocks, now, state_lock, producer, faucet_claim>>

\* both ingress paths, the API and the peers, besides the producer
NextApi == SubmitApi \/ SubmitGate \/ Tick

SpecApi == Init /\ [][NextApi]_vars

\* ------------------------------------------------------------ storage failures
\* the persistence steps of produce_block, each ending in `?`: a failing step
\* returns the error out of produce_block and the producer loop goes on
PersistSteps ==
    <<"save_block", "set_height", "index_transaction", "set_balance", "set_total_supply">>

\* Blockchain::produce_block when the persistence step number failed returns an
\* error: the transactions were executed and the steps before it were written
produce_block_failing(t, failed) ==
    /\ height < MaxHeight
    /\ \E d \in {drain_for_block(mempool, max_txs_per_block)} :
       \E r \in {execute_all(store, d.txs, <<>>, height, t)} :
       \E reward \in {block_reward * UNIT} :
       \E validator_reward \in {mul_div(reward, validator_percent, 100)} :
       \E block \in {block_new(height + 1, blocks[height].hash, master_address, r.txs,
                               [validator_reward |-> validator_reward,
                                total_minted |-> reward], gas_limit, t)} :
       \E st2 \in {IF failed > 4
                   THEN set_balance(r.st, master_address,
                                    native_add(get_balance(r.st, master_address), validator_reward))
                   ELSE r.st} :
           /\ mempool' = d.mp
           /\ blocks' = IF failed > 1 THEN Put(blocks, block.height, block) ELSE blocks
           /\ height' = IF failed > 2 THEN height + 1 ELSE height
           /\ balance' = st2.balance
           /\ nonce' = st2.nonce
           /\ tokens' = st2.tokens
           /\ token_balance' = st2.token_balance
           /\ mosh' = st2.mosh
           /\ mosh_var' = st2.mosh_var
           /\ mosh_map' = st2.mosh_map
           /\ total_supply' = total_supply
    /\ now' = t
    /\ UNCHANGED <<state_lock, producer, faucet_claim>>

\* the producer loop with ticks that succeed and ticks that fail
NextFailing ==
    \/ Submit
    \/ Tick
    \/ \E t \in now..MaxTime, failed \in DOMAIN PersistSteps :
           produce_block_failing(t, failed)

SpecFailing == Init /\ [][NextFailing]_vars

\* ------------------------------------------------- the producer under the lock
\* the stores left by the writes of one arm of execute_transaction, in the order
\* of the writes; paid is the store after the gas fee was deducted, the first write
\* of every arm but Transfer, which reads both balances before its first write
arm_writes(st, paid, tx, ts) ==
    IF tx.tx_type = "Transfer"
    THEN LET debited == set_balance(st, tx.from,
                                    get_balance(st, tx.from)
                                        - native_add(tx.value, tx.gas_used * tx.gas_price))
             credited == set_balance(debited, tx.to,
                                     native_add(get_balance(st, tx.to), tx.value))
         IN  <<debited, credited, increment_nonce(credited, tx.from)>>
    ELSE IF tx.tx_type = "TransferToken"
    THEN LET d == tx.data
             taken == set_token_balance(paid, d.contract, tx.from,
                          get_token_balance(paid, d.contract, tx.from) - d.amount)
             given == set_token_balance(taken, d.contract, d.to,
                          get_token_balance(paid, d.contract, d.to) + d.amount)
         IN  <<paid, taken, given, increment_nonce(given, tx.from)>>
    ELSE LET token == [address |-> token_address(tx.from, tx.data.name, ts),
                       name |-> tx.data.name, decimals |-> 8,
                       total_supply |-> tx.data.total_supply * UNIT, creator |-> tx.from,
                       created_at |-> ts]
             saved == save_token(paid, token)
             funded == set_token_balance(saved, token.address, tx.from,
                                         token.total_supply)
         IN  <<paid, saved, funded, increment_nonce(funded, tx.from)>>

\* the stores a transaction leaves behind, one per write of execute_transaction; no
\* write happens when a gate refuses the transaction, and a token transfer refused
\* after the gates has paid its gas fee
write_steps(st, tx, blk_height, ts) ==
    CHOOSE steps \in
        {IF r.error.kind \in {"InvalidSignature", "InvalidNonce", "InsufficientBalance"}
         THEN <<>>
         ELSE IF tx.tx_type = "Transfer"
         THEN IF r.ok THEN arm_writes(st, paid, r.tx, ts) ELSE <<>>
         ELSE IF tx.tx_type = "TransferToken" /\ tx.data.kind = "TransferToken"
         THEN IF r.ok THEN arm_writes(st, paid, r.tx, ts) ELSE <<paid>>
         ELSE IF tx.tx_type = "CreateToken" /\ tx.data.kind = "CreateToken"
         THEN arm_writes(st, paid, r.tx, ts)
         ELSE IF r.st = st THEN <<>> ELSE <<r.st>> :
         r \in {execute_transaction(st, tx, blk_height, ts)},
         paid \in {set_balance(st, tx.from, get_balance(st, tx.from)
                                              - base_gas(tx.tx_type) * tx.gas_price)}} :
        TRUE

\* produce_block up to the drain; the engine lock is taken for the whole block, so
\* no transaction is added while a block is in production
begin_block(t) ==
    /\ producer.pc = "idle"
    /\ height < MaxHeight
    /\ \E d \in {drain_for_block(mempool, max_txs_per_block)} :
           /\ mempool' = d.mp
           /\ producer' = [producer EXCEPT !.pc = "loop", !.txs = d.txs,
                                           !.executed_txs = <<>>, !.t = t]
    /\ now' = t
    /\ UNCHANGED <<balance, nonce, tokens, token_balance, mosh, mosh_var, mosh_map,
                   height, total_supply, blocks, state_lock, faucet_claim>>

\* execute_transaction up to its first write: the gates read under read locks, and
\* a transaction that passes them waits for the write lock; the step starts before
\* the gates or, after gate_tx, behind them
begin_tx ==
    /\ producer.pc \in {"loop", "gated"}
    /\ producer.txs # <<>>
    /\ ~state_lock.writer
    /\ \E tx \in {Head(producer.txs)} :
       \E steps \in {write_steps(store, tx, height, producer.t)} :
           IF steps = <<>>
           THEN /\ producer' =
                      [producer EXCEPT
                          !.pc = "loop", !.txs = Tail(@), !.base = store,
                          !.executed_txs =
                              Append(@, execute_all(store, <<tx>>, <<>>, height,
                                                    producer.t).txs[1])]
                /\ UNCHANGED state_lock
           ELSE /\ state_lock.readers = 0
                /\ state_lock' = [state_lock EXCEPT !.writer = TRUE]
                /\ producer' = [producer EXCEPT !.pc = "write", !.steps = steps,
                                                !.base = store]
    /\ UNCHANGED <<balance, nonce, tokens, token_balance, mosh, mosh_var, mosh_map,
                   height, total_supply, blocks, mempool, now, faucet_claim>>

\* one write with the write guard dropped after it and taken again before the next
write_step_guard_per_write ==
    /\ producer.pc = "write"
    /\ producer.steps # <<>>
    /\ state_lock.readers = 0
    /\ \E st \in {Head(producer.steps)} :
           /\ balance' = st.balance
           /\ nonce' = st.nonce
           /\ tokens' = st.tokens
           /\ token_balance' = st.token_balance
           /\ mosh' = st.mosh
           /\ mosh_var' = st.mosh_var
           /\ mosh_map' = st.mosh_map
    /\ producer' = [producer EXCEPT !.steps = Tail(@)]
    /\ state_lock' = [state_lock EXCEPT !.writer = FALSE]
    /\ UNCHANGED <<height, total_supply, blocks, mempool, now, faucet_claim>>

\* one write of the transaction in execution; the write guard taken before the first
\* write lives to the end of the match arm, and nothing awaits in between
write_step ==
    /\ producer.pc = "write"
    /\ producer.steps # <<>>
    /\ state_lock.writer
    /\ \E st \in {Head(producer.steps)} :
           /\ balance' = st.balance
           /\ nonce' = st.nonce
           /\ tokens' = st.tokens
           /\ token_balance' = st.token_balance
           /\ mosh' = st.mosh
           /\ mosh_var' = st.mosh_var
           /\ mosh_map' = st.mosh_map
    /\ producer' = [producer EXCEPT !.steps = Tail(@)]
    /\ UNCHANGED <<height, total_supply, blocks, mempool, now, state_lock, faucet_claim>>

\* execute_transaction returns, the write guard is dropped and the loop of
\* produce_block records the status
end_tx ==
    /\ producer.pc = "write"
    /\ producer.steps = <<>>
    /\ state_lock' = [state_lock EXCEPT !.writer = FALSE]
    /\ producer' =
           [producer EXCEPT
               !.pc = "loop", !.txs = Tail(@),
               !.executed_txs =
                   Append(@, execute_all(producer.base, <<Head(producer.txs)>>, <<>>,
                                         height, producer.t).txs[1])]
    /\ UNCHANGED <<balance, nonce, tokens, token_balance, mosh, mosh_var, mosh_map,
                   height, total_supply, blocks, mempool, now, faucet_claim>>

\* the rest of produce_block after the loop: the block is built and persisted under
\* the write lock
end_block ==
    /\ producer.pc = "loop"
    /\ producer.txs = <<>>
    /\ ~state_lock.writer
    /\ state_lock.readers = 0
    /\ \E reward \in {block_reward * UNIT} :
       \E validator_reward \in {mul_div(reward, validator_percent, 100)} :
       \E block \in {block_new(height + 1, blocks[height].hash, master_address,
                               producer.executed_txs,
                               [validator_reward |-> validator_reward,
                                total_minted |-> reward], gas_limit, producer.t)} :
           /\ blocks' = Put(blocks, block.height, block)
           /\ height' = height + 1
           /\ balance' = set_balance(store, master_address,
                                     native_add(get_balance(store, master_address),
                                                validator_reward)).balance
           /\ total_supply' = total_supply + block.rewards.total_minted
    /\ producer' = [producer EXCEPT !.pc = "idle", !.executed_txs = <<>>]
    /\ UNCHANGED <<nonce, tokens, token_balance, mosh, mosh_var, mosh_map, mempool, now,
                   state_lock, faucet_claim>>

\* a query handler of the API takes the read lock, or drops it
reader ==
    /\ ~state_lock.writer
    /\ state_lock' = [state_lock EXCEPT !.readers = 1 - @]
    /\ UNCHANGED <<balance, nonce, tokens, token_balance, mosh, mosh_var, mosh_map,
                   height, total_supply, blocks, mempool, now, producer, faucet_claim>>

\* the master pays address 2, creates the token and sends a token unit to address
\* 2, which tries to pay the master back; the producer and a reader take their steps
NextLock ==
    \/ /\ producer.pc = "idle"
       /\ \E tx \in {NewTx("Transfer", 1, 2, UNIT, 0, NoData, 0, "ok"),
                     NewTx("CreateToken", 1, NoAddr, 0, 1, CreateTokenData(1, 3), 0, "ok"),
                     NewTx("TransferToken", 1, 2, 0, 2,
                           TransferTokenData(demo_token, 2, UNIT), 0, "ok"),
                     NewTx("Transfer", 2, 1, UNIT, 0, NoData, 0, "ok")} :
              add_transaction(tx)
    \/ \E t \in now..MaxTime : begin_block(t)
    \/ begin_tx
    \/ write_step
    \/ end_tx
    \/ end_block
    \/ reader

SpecLock == Init /\ [][NextLock]_vars

\* ------------------------------------------------- the faucet and the producer
\* the faucet with its balance read taken before the write guard: the balance it
\* adds to is the one the store held when the producer last took the guard
faucet_read_before_guard(address) ==
    /\ ~state_lock.writer
    /\ state_lock.readers = 0
    /\ \A last_claim \in {faucet_claim[a] : a \in {address} \cap DOMAIN faucet_claim} :
           ~(now - last_claim < faucet_cooldown)
    /\ \E amount \in {faucet_amount * UNIT} :
       \E current_balance \in {get_balance(producer.base, address)} :
           balance' = set_balance(store, address,
                                  native_add(current_balance, amount)).balance
    /\ faucet_claim' = Put(faucet_claim, address, now)
    /\ UNCHANGED <<nonce, tokens, token_balance, mosh, mosh_var, mosh_map, height,
                   total_supply, blocks, mempool, now, state_lock, producer>>

\* the faucet handler of the API for a valid address: the cooldown check, the
\* balance read, the balance write and the claim record all happen under one write
\* guard on the store, which the handler takes without the engine lock
faucet(address) ==
    /\ ~state_lock.writer
    /\ state_lock.readers = 0
    /\ \A last_claim \in {faucet_claim[a] : a \in {address} \cap DOMAIN faucet_claim} :
           ~(now - last_claim < faucet_cooldown)
    /\ \E amount \in {faucet_amount * UNIT} :
       \E current_balance \in {get_balance(store, address)} :
           balance' = set_balance(store, address,
                                  native_add(current_balance, amount)).balance
    /\ faucet_claim' = Put(faucet_claim, address, now)
    /\ UNCHANGED <<nonce, tokens, token_balance, mosh, mosh_var, mosh_map, height,
                   total_supply, blocks, mempool, now, state_lock, producer>>

\* the gates of execute_transaction: the signature, the nonce and the balance that
\* covers the gas fee, and the value of a transfer
tx_gates(st, tx) ==
    LET gas_fee == base_gas(tx.tx_type) * tx.gas_price
        total_cost == IF tx.tx_type = "Transfer" THEN native_add(tx.value, gas_fee)
                                                 ELSE gas_fee
    IN  /\ verify_signature(tx) = "ok"
        /\ tx.nonce = get_nonce(st, tx.from)
        /\ ~(get_balance(st, tx.from) < total_cost)

\* execute_transaction through its gates: they read under read guards that are
\* dropped before the arm asks for the write guard, so another writer can get in
\* between; the arm then reads the balances again under its write guard
gate_tx ==
    /\ producer.pc = "loop"
    /\ producer.txs # <<>>
    /\ ~state_lock.writer
    /\ tx_gates(store, Head(producer.txs))
    /\ producer' = [producer EXCEPT !.pc = "gated"]
    /\ UNCHANGED <<balance, nonce, tokens, token_balance, mosh, mosh_var, mosh_map,
                   height, total_supply, blocks, mempool, now, state_lock, faucet_claim>>

\* the master pays address 2 and creates a token, address 2 pays the master back,
\* which it can afford only with the coins of the faucet; both addresses claim from
\* the faucet at any moment the store is not locked
NextFaucet ==
    \/ /\ producer.pc = "idle"
       /\ \E tx \in {NewTx("Transfer", 1, 2, UNIT, 0, NoData, 0, "ok"),
                     NewTx("CreateToken", 1, NoAddr, 0, 1, CreateTokenData(1, 3), 0, "ok"),
                     NewTx("Transfer", 2, 1, UNIT, 0, NoData, 0, "ok")} :
              add_transaction(tx)
    \/ \E t \in now..MaxTime : begin_block(t)
    \/ begin_tx
    \/ gate_tx
    \/ write_step
    \/ end_tx
    \/ end_block
    \/ reader
    \/ \E address \in {master_address, 2} : faucet(address)

SpecFaucet == Init /\ [][NextFaucet]_vars

\* --------------------------------------------------------------- deploy inputs
\* a schema with a variable called name and a variable whose name has 33
\* characters, one more than MAX_NAME_LENGTH
wide_def ==
    [variables |-> <<VarDef("name", "String", FALSE, EmptyStr),
                     VarDef("total_number_of_votes_cast_so_far", "Uint64", TRUE, Num(0))>>,
     mappings |-> <<>>, functions |-> <<>>]

\* schemas that deploy refuses: one mapping too many, a name shared by a variable
\* and a mapping, a variable with a reserved name
RefusedDefs ==
    {[variables |-> <<>>,
      mappings |-> [i \in 1..(MAX_MAPPINGS + 1) |->
                       MappingDef(<<"m1", "m2", "m3", "m4", "m5", "m6">>[i],
                                  "Address", "Uint64")],
      functions |-> <<>>],
     [variables |-> <<VarDef("votes", "Uint64", TRUE, Num(0))>>,
      mappings |-> <<MappingDef("votes", "Address", "Uint64")>>, functions |-> <<>>],
     [variables |-> <<VarDef("balance", "Uint64", TRUE, Num(0))>>,
      mappings |-> <<>>, functions |-> <<>>]}

\* the master deploys the wide schema, then a refused schema or a contract bound to
\* a token that was never created
DeployTxs ==
    {NewTx("DeployContract", 1, NoAddr, 0, 0, DeployContractData(5, NoAddr, wide_def),
           0, "ok")}
    \cup {NewTx("DeployContract", 1, NoAddr, 0, 1, DeployContractData(5, NoAddr, def),
                0, "ok") : def \in RefusedDefs}
    \cup {NewTx("DeployContract", 1, NoAddr, 0, 1,
                DeployContractData(5, demo_token, vault_def), 0, "ok")}

SubmitDeploy == \E tx \in DeployTxs : add_transaction(tx)

NextDeploy == SubmitDeploy \/ Tick

SpecDeploy == Init /\ [][NextDeploy]_vars

\* ---------------------------------------------------------------- mint inputs
\* the master creates a token of 3 units under name 1, creates a token of 1 unit
\* under the same name, or sends a token unit to address 2
NextMint ==
    \/ \E tx \in {NewTx("CreateToken", 1, NoAddr, 0, 0, CreateTokenData(1, 3), 0, "ok"),
                  NewTx("CreateToken", 1, NoAddr, 0, 1, CreateTokenData(1, 1), 0, "ok"),
                  NewTx("TransferToken", 1, 2, 0, 1,
                        TransferTokenData(demo_token, 2, UNIT), 0, "ok"),
                  NewTx("CreateToken", 1, NoAddr, 0, 2, CreateTokenData(1, 1), 0, "ok")} :
           add_transaction(tx)
    \/ Tick

SpecMint == Init /\ [][NextMint]_vars

\* ------------------------------------------------------------- counter inputs
\* the master deploys the registry and calls bump, whose body is add count 1, up to
\* three times; get_count is sent as a transaction too
NextCounter ==
    \/ \E tx \in {NewTx("DeployContract", 1, NoAddr, 0, 0,
                        DeployContractData(8, NoAddr, registry_def), 0, "ok"),
                  CallTx(1, Method("get", "count"), <<>>)}
                 \cup {CallTx(n, Method("", "bump"), <<>>) : n \in 1..3} :
           add_transaction(tx)
    \/ Tick

SpecCounter == Init /\ [][NextCounter]_vars

\* --------------------------------------------------------------- owner inputs
\* the master deploys a contract with a counter, an OnlyOwner function reset and a
\* plain function bump; at nonce 1 it hands the contract to address 2 or calls
\* bump; at nonce 2 it calls reset or the counter's setter
NextOwner ==
    \/ \E tx \in {NewTx("DeployContract", 1, NoAddr, 0, 0,
                        DeployContractData(
                            8, NoAddr,
                            [variables |-> <<VarDef("count", "Uint64", TRUE, Num(0))>>,
                             mappings |-> <<>>,
                             functions |->
                                <<FnDef(Method("", "reset"), {"OnlyOwner"}, <<>>,
                                        <<[NoOp EXCEPT !.op = "set", !.var = "count",
                                                       !.value = NumOpd(0)]>>),
                                  FnDef(Method("", "bump"), {}, <<>>,
                                        <<[NoOp EXCEPT !.op = "add", !.var = "count",
                                                       !.value = NumOpd(1)]>>)>>]),
                        0, "ok"),
                  CallTx(1, Method("set", "owner"), <<Str(2)>>),
                  CallTx(1, Method("", "bump"), <<>>),
                  CallTx(2, Method("", "reset"), <<>>),
                  CallTx(2, Method("set", "count"), <<Num(5)>>)} :
           add_transaction(tx)
    \/ Tick

SpecOwner == Init /\ [][NextOwner]_vars

\* ------------------------------------------------------------------ op inputs
\* the master deploys a contract with a counter that starts at 6, a mapping of
\* votes and the functions shadow(who) (let who = 9, then set count who),
\* grow(n) (add count n), credit(who, n) (map_add votes[who] n) and
\* fresh(who) (require votes[who] == 0); at nonce 1 it calls shadow(3), grow(7)
\* or its setter of votes with (2, 0); at nonce 2 it calls fresh(2) or
\* credit(2, 7)
NextOps ==
    \/ \E tx \in {NewTx("DeployContract", 1, NoAddr, 0, 0,
                        DeployContractData(
                            8, NoAddr,
                            [variables |-> <<VarDef("count", "Uint64", TRUE, Num(6))>>,
                             mappings |-> <<MappingDef("votes", "Address", "Uint64")>>,
                             functions |->
                                <<FnDef(Method("", "shadow"), {}, <<"who">>,
                                        <<[NoOp EXCEPT !.op = "let", !.var = "who",
                                                       !.value = NumOpd(9)],
                                          [NoOp EXCEPT !.op = "set", !.var = "count",
                                                       !.value = StrOpd("who", Str(64))]>>),
                                  FnDef(Method("", "grow"), {}, <<"n">>,
                                        <<[NoOp EXCEPT !.op = "add", !.var = "count",
                                                       !.value = StrOpd("n", Str(65))]>>),
                                  FnDef(Method("", "credit"), {}, <<"who", "n">>,
                                        <<[NoOp EXCEPT !.op = "map_add", !.map = "votes",
                                                       !.key = StrOpd("who", Str(64)),
                                                       !.value = StrOpd("n", Str(65))]>>),
                                  FnDef(Method("", "fresh"), {}, <<"who">>,
                                        <<[NoOp EXCEPT !.op = "require", !.cmp = "==",
                                                       !.left = IdxOpd("votes[who]", Str(62),
                                                                       "votes", "who", Str(64)),
                                                       !.right = NumOpd(0)]>>)>>]),
                        0, "ok"),
                  CallTx(1, Method("", "shadow"), <<Num(3)>>),
                  CallTx(1, Method("", "grow"), <<Num(7)>>),
                  CallTx(1, Method("set", "votes"), <<Str(2), Num(0)>>),
                  CallTx(2, Method("", "fresh"), <<Str(2)>>),
                  CallTx(2, Method("", "credit"), <<Str(2), Num(7)>>)} :
           add_transaction(tx)
    \/ Tick

SpecOps == Init /\ [][NextOps]_vars

\* ------------------------------------------------------------ amount inputs
\* transfers whose value plus the gas fee is one more than the largest amount:
\* from the master to address 2 and from address 2 back to the master; and
\* transfers of one coin from the master to address 2
NextWide ==
    \/ \E tx \in {NewTx("Transfer", 1, 2,
                        NativeMax + 1 - base_gas("Transfer") * API_GAS_PRICE, 0, NoData,
                        0, "ok"),
                  NewTx("Transfer", 2, 1,
                        NativeMax + 1 - base_gas("Transfer") * API_GAS_PRICE, 0, NoData,
                        0, "ok"),
                  NewTx("Transfer", 1, 2, UNIT, 0, NoData, 0, "ok"),
                  NewTx("Transfer", 1, 2, UNIT, 1, NoData, 0, "ok")} :
           add_transaction(tx)
    \/ Tick

SpecWide == Init /\ [][NextWide]_vars

\* ------------------------------------------------------------------ signatures
\* An ed25519 public key is written as the address it derives, a signature as the
\* key that made it and the message it was made over; wellformed is FALSE for a hex
\* string that does not decode to the right length.
\* Address::from_public_key: bech32 of sha256(public_key)[..20]
address_from_public_key(public_key) == public_key.derives

\* Keypair::sign_hex, for the keypair whose public key is public_key
sign_hex(public_key, message) ==
    [wellformed |-> TRUE, signer |-> public_key, message |-> message]

\* hash_tx_data: sha256 over the type, from, to, value, nonce and the data
hash_tx_data(tx_type, from, to, value, n, data) ==
    <<tx_type, from, to, value, n, data>>

\* verify_tx_signature without the comparison of the derived address with from
verify_tx_signature_any_key(from_address, message, signature, public_key) ==
    IF ~public_key.wellformed \/ ~signature.wellformed THEN "err"
    ELSE IF signature.signer = public_key /\ signature.message = message THEN "ok"
    ELSE "bad"

\* verify_tx_signature: Ok(true) "ok", Ok(false) "bad", Err(_) "err"
verify_tx_signature(from_address, message, signature, public_key) ==
    IF ~public_key.wellformed \/ ~signature.wellformed THEN "err"
    ELSE IF address_from_public_key(public_key) # from_address THEN "bad"
    ELSE IF signature.signer = public_key /\ signature.message = message THEN "ok"
    ELSE "bad"

\* a transfer of one unit from address 1 to address 2 carrying the given signature
\* and public key; sig is what Transaction::verify_signature answers on it
signed_transfer(n, signature, public_key) ==
    [NewTx("Transfer", 1, 2, UNIT, n, NoData, 0, "ok") EXCEPT
        !.sig = verify_tx_signature(1, hash_tx_data("Transfer", 1, 2, UNIT, n, NoData),
                                    signature, public_key)]

\* the keys of the addresses, and the signatures put on a transfer of nonce n: made
\* by either key over the transfer's message or over the message of the transfer
\* of the other nonce, or not decodable
PublicKeys == {[wellformed |-> TRUE, derives |-> a] : a \in Addrs}
Signatures(n) ==
    {sign_hex(k, hash_tx_data("Transfer", 1, 2, UNIT, m, NoData)) :
        k \in PublicKeys, m \in {n, 1 - n}}
    \cup {[sign_hex(k, hash_tx_data("Transfer", 1, 2, UNIT, n, NoData))
              EXCEPT !.wellformed = FALSE] : k \in {[wellformed |-> TRUE, derives |-> 1]}}

\* the transfer of nonce 0 arrives under any of the signatures and keys, the one of
\* nonce 1 signed by the key of address 1
NextSig ==
    \/ \E signature \in Signatures(0), public_key \in PublicKeys :
           add_transaction(signed_transfer(0, signature, public_key))
    \/ \E k \in {[wellformed |-> TRUE, derives |-> 1]} :
           add_transaction(
               signed_transfer(1, sign_hex(k, hash_tx_data("Transfer", 1, 2, UNIT, 1,
                                                           NoData)), k))
    \/ Tick

SpecSig == Init /\ [][NextSig]_vars

\* ------------------------------------------------------------- properties
\* the transactions of the persisted blocks 1..height, as (height, index) places
TxPlaces == {<<h, i>> \in (1..MaxHeight + 1) \X (1..MaxPending + 1) :
                h \in DOMAIN blocks /\ i <= Len(blocks[h].transactions)}
TxAt(p) == blocks[p[1]].transactions[p[2]]
SuccessCount(a) ==
    Cardinality({p \in TxPlaces : TxAt(p).from = a /\ TxAt(p).status = "Success"})

\* C1: after any sequence of submits and produced blocks, the stored nonce of every
\* address equals the number of Success transactions it sent in blocks 1..height,
\* whatever the kind and the data payload of the transactions
C1_NonceCountsSuccess ==
    \A a \in Addrs : get_nonce(store, a) = SuccessCount(a)

\* C3: after b produced blocks the total_supply cell is the initial master balance
\* plus b block rewards (base units), and the master has been credited the validator
\* reward of the blocks 1..b only (seen on a chain of empty blocks)
C3_TotalSupply ==
    /\ total_supply = master_balance * UNIT + height * (block_reward * UNIT)
    /\ (\A h \in 1..height : blocks[h].tx_count = 0) =>
          get_balance(store, master_address) =
              master_balance * UNIT + height * mul_div(block_reward * UNIT, validator_percent, 100)

C5_ChainLinked ==
    /\ blocks[0].prev_hash = ZeroHash
    /\ \A h \in DOMAIN blocks : h >= 1 =>
          /\ h - 1 \in DOMAIN blocks
          /\ blocks[h].prev_hash = blocks[h - 1].hash
          /\ blocks[h].validator = master_address
C5_Witness == height >= 2 /\ blocks[2].prev_hash = blocks[1].hash

\* C6: Block::is_valid holds of every persisted block, also of a block whose
\* transactions execution has modified (status, error, gas_used)
C6_BlocksValid ==
    \A h \in DOMAIN blocks : block_is_valid(blocks[h])
C6_Witness ==
    \E p \in TxPlaces : /\ TxAt(p).status = "Failed"
                        /\ TxAt(p).error # NoError
                        /\ block_is_valid(blocks[p[1]])

\* the pending transactions, and whether a (sender, nonce) pair has one
Pending(mp) == {mp.by_hash[h] : h \in DOMAIN mp.by_hash}
NoncePending(mp, t) == \E p \in Pending(mp) : p.from = t.from /\ p.nonce = t.nonce

\* add(t) twice: added, then the duplicate signal, one more transaction pending
AddTwice(mp, t) ==
    LET first == add(mp, t)
        second == add(first.mp, t)
    IN  /\ first.res = "Added"
        /\ second.res = "Duplicate"
        /\ second.mp.count = mp.count + 1
        /\ second.mp = first.mp

\* C7 as stated: for every mempool state and every transaction whose hash is not
\* pending, add returns added, a second add returns the duplicate signal, the count
\* grows by exactly 1 and the indices are the same after both calls
C7_AddIdempotent ==
    \A t \in NativeTxs : t.hash \notin DOMAIN mempool.by_hash => AddTwice(mempool, t)

\* C7 amended: the same for every transaction of which neither the hash nor the
\* (sender, nonce) pair is pending
C7_AddIdempotentFreeNonce ==
    \A t \in NativeTxs :
        (t.hash \notin DOMAIN mempool.by_hash /\ ~NoncePending(mempool, t))
            => AddTwice(mempool, t)
C7_Witness ==
    /\ mempool.count >= 1
    /\ \E t \in NativeTxs :
          /\ t.hash \notin DOMAIN mempool.by_hash /\ ~NoncePending(mempool, t)
          /\ add(add(mempool, t).mp, t).res = "Duplicate"

\* C8 as stated: when a transaction of sender s and nonce n is pending, add of a
\* transaction with another hash and the same (s, n) fails with the nonce-pending
\* error and leaves count and both indices as they were
C8_NonceConflictRejected ==
    \A t \in NativeTxs : \A p \in Pending(mempool) :
        (p.from = t.from /\ p.nonce = t.nonce /\ p.hash # t.hash)
            => add(mempool, t) = [mp |-> mempool, res |-> "NoncePending"]

\* C8 amended: such an add leaves the mempool as it was, and fails with the
\* nonce-pending error unless the hash of the added transaction is itself pending,
\* where it returns the duplicate signal
C8_NonceConflictKeepsPool ==
    \A t \in NativeTxs : \A p \in Pending(mempool) :
        (p.from = t.from /\ p.nonce = t.nonce /\ p.hash # t.hash)
            => add(mempool, t) =
                  [mp |-> mempool,
                   res |-> IF t.hash \in DOMAIN mempool.by_hash THEN "Duplicate"
                           ELSE "NoncePending"]
C8_Witness ==
    \E t \in NativeTxs : \E p \in Pending(mempool) :
        /\ p.from = t.from /\ p.nonce = t.nonce /\ p.hash # t.hash
        /\ add(mempool, t).res = "NoncePending"
        /\ mempool.count >= 2

\* the order of a block's transactions: sender ascending, then nonce ascending
SenderNonceOrder(a, b) == a.from < b.from \/ (a.from = b.from /\ a.nonce < b.nonce)
InOrder(txs) == \A i, j \in 1..Len(txs) : i < j => SenderNonceOrder(txs[i], txs[j])
Elems(txs) == {txs[i] : i \in 1..Len(txs)}
MinOf(a, b) == IF a <= b THEN a ELSE b

\* both indices and the count of a mempool holding exactly the transactions of S
PoolOf(S) ==
    [by_hash |-> [h \in {x.hash : x \in S} |-> CHOOSE x \in S : x.hash = h],
     by_sender |-> [f \in {x.from : x \in S} |->
                      [n \in {x.nonce : x \in {y \in S : y.from = f}} |->
                          (CHOOSE x \in S : x.from = f /\ x.nonce = n).hash]],
     count |-> Cardinality(S)]

\* C9: drain_for_block(max) returns the min(max, count) pending transactions that
\* are smallest in (sender, nonce) order, in that order, removes exactly those from
\* both indices and the count and keeps the others; the transactions of every
\* produced block are in (sender, nonce) order
C9_DrainSmallestInOrder ==
    /\ \A max \in 0..(MaxPending + 1) :
          LET d == drain_for_block(mempool, max)
              got == Elems(d.txs)
              rest == Pending(mempool) \ got
          IN  /\ Len(d.txs) = MinOf(max, mempool.count)
              /\ InOrder(d.txs)
              /\ got \subseteq Pending(mempool)
              /\ \A x \in rest : \A y \in got : SenderNonceOrder(y, x)
              /\ d.mp = PoolOf(rest)
    /\ \A h \in DOMAIN blocks : InOrder(blocks[h].transactions)
C9_Witness ==
    /\ height >= 1
    /\ blocks[height].tx_count = max_txs_per_block
    /\ \E x \in Pending(mempool) :
          /\ SenderNonceOrder(blocks[height].transactions[max_txs_per_block], x)
          /\ x.from # blocks[height].transactions[1].from

\* C10: in the result of drain_for_block(max) the nonces of every sender's entries
\* are contiguous and start at the sender's stored nonce
C10_DrainContiguousNonces ==
    \A max \in 0..(MaxPending + 1) : \A a \in Addrs :
        LET ns == {x.nonce : x \in {y \in Elems(drain_for_block(mempool, max).txs) :
                                         y.from = a}}
        IN  ns = get_nonce(store, a)..(get_nonce(store, a) + Cardinality(ns) - 1)

\* the sum of the balances of token t over the holders that have a balance cell
RECURSIVE SumBalances(_, _)
SumBalances(t, holders) ==
    IF holders = {} THEN 0
    ELSE LET a == CHOOSE x \in holders : TRUE
         IN  token_balance[<<t, a>>] + SumBalances(t, holders \ {a})
Holders(t) == {k[2] : k \in {x \in DOMAIN token_balance : x[1] = t}}

\* C2: for every token, the balances of all its holders sum to the total_supply of
\* its token record, after any sequence of CreateToken, TransferToken, payable calls
\* and contract transfer ops, with equal or distinct sender and recipient
C2_TokenSupplyConserved ==
    \A t \in DOMAIN tokens : SumBalances(t, Holders(t)) = tokens[t].total_supply

\* ---------------------------------------------------------------- C11
PendingNonces(a) == {p.nonce : p \in {q \in Pending(mempool) : q.from = a}}

\* C11: for every sender and either build, get_pending_nonce returns
\* max(confirmed_nonce, m + 1) with m the sender's largest pending nonce
\* (confirmed_nonce when nothing is pending), and the returned nonce is not
\* pending for that sender, so adding a fresh transaction with it is not
\* rejected as a nonce conflict.
C11_PendingNonceFresh ==
    \A a \in Addrs, overflow_checks \in BOOLEAN :
        LET confirmed_nonce == get_nonce(store, a)
            r == get_pending_nonce(mempool, a, confirmed_nonce, overflow_checks)
            t == [NewTx("Transfer", a, a, 0, r, NoData, MaxTime + 1, "ok")
                     EXCEPT !.hash = <<"fresh">>]
        IN  /\ r # Panic
            /\ IF PendingNonces(a) = {} THEN r = confirmed_nonce
               ELSE \E m \in PendingNonces(a) :
                        /\ \A k \in PendingNonces(a) : k <= m
                        /\ r = cmp_max(confirmed_nonce, m + 1)
            /\ r \notin PendingNonces(a)
            /\ add(mempool, t).res # "NoncePending"

\* ---------------------------------------------------------------- C12
\* the submitted transaction behind an executed one
SameTx(e, d) ==
    /\ e.hash = d.hash /\ e.tx_type = d.tx_type /\ e.from = d.from
    /\ e.value = d.value /\ e.nonce = d.nonce /\ e.timestamp = d.timestamp
    /\ e.data = d.data /\ e.sig = d.sig

Terminal(e) ==
    \/ e.status = "Success"
    \/ e.status = "Failed" /\ e.error # NoError /\ e.error.kind # "None"

Cost(tx) ==
    (IF tx.tx_type = "Transfer" THEN tx.value ELSE 0) + base_gas(tx.tx_type) * tx.gas_price

\* the error of the first gate tx fails on the store st, NoError when it passes all
GateError(st, tx) ==
    IF tx.sig # "ok" THEN "InvalidSignature"
    ELSE IF tx.nonce # get_nonce(st, tx.from) THEN "InvalidNonce"
    ELSE IF get_balance(st, tx.from) < Cost(tx) THEN "InsufficientBalance"
    ELSE "None"

GateRecorded(st, tx, e) ==
    /\ e.status = "Failed"
    /\ e.error.kind = GateError(st, tx)
    /\ GateError(st, tx) = "InvalidNonce" =>
           e.error.a = get_nonce(st, tx.from) /\ e.error.b = tx.nonce
    /\ GateError(st, tx) = "InsufficientBalance" =>
           e.error.a = Cost(tx) /\ e.error.b = get_balance(st, tx.from)

\* C13: executing a transaction that fails the signature, nonce or balance
\* gate (checked in that order) on any reachable store records it Failed with
\* the error of the first failing gate (expected and got nonce, required and
\* available balance) and leaves the store unchanged; a tick whose drained
\* transactions all fail a gate changes no nonce and no balance but the
\* validator's reward.
C13_GateFailureNoEffect ==
    [][/\ \A tx \in GateTxs :
            GateError(store, tx) # "None" =>
                LET r == execute_all(store, <<tx>>, <<>>, height, now)
                IN  r.st = store /\ GateRecorded(store, tx, r.txs[1])
       /\ LET d == drain_for_block(mempool, max_txs_per_block).txs
          IN  (height' # height /\ \A i \in 1..Len(d) : GateError(store, d[i]) # "None") =>
                  /\ \A i \in 1..Len(d) :
                         GateRecorded(store, d[i], blocks'[height'].transactions[i])
                  /\ nonce' = nonce
                  /\ balance' = Put(balance, master_address,
                                    get_balance(store, master_address)
                                    + mul_div(block_reward * UNIT, validator_percent, 100))]_vars

C13_Witness ==
    \E p, q, r \in TxPlaces :
        /\ TxAt(p).error.kind = "InvalidSignature"
        /\ TxAt(q).error.kind = "InvalidNonce"
        /\ TxAt(r).error.kind = "InsufficientBalance"

\* ---------------------------------------------------------------- C14
RECURSIVE NativeSum(_)
NativeSum(S) ==
    IF S = {} THEN 0
    ELSE LET a == CHOOSE x \in S : TRUE IN balance[a] + NativeSum(S \ {a})

\* the gas fees of the Success transactions at the places P
RECURSIVE FeeSum(_)
FeeSum(P) ==
    IF P = {} THEN 0
    ELSE LET p == CHOOSE x \in P : TRUE
         IN  (IF TxAt(p).status = "Success" THEN TxAt(p).gas_used * TxAt(p).gas_price ELSE 0)
             + FeeSum(P \ {p})

\* C14: with transfers only, every successful one (to another address or to
\* the sender itself) moves its value and burns its gas fee, and a transfer
\* without a valid recipient fails without effect: the native balances sum
\* to the genesis balance plus the validator rewards minus the gas fees of
\* the Success transactions.
C14_TransferConservesValue ==
    /\ NativeSum(DOMAIN balance)
         = master_balance * UNIT
           + height * mul_div(block_reward * UNIT, validator_percent, 100)
           - FeeSum(TxPlaces)
    /\ \A p \in TxPlaces :
           TxAt(p).to \notin Addrs => TxAt(p).status = "Failed"

\* ---------------------------------------------------------------- C15
\* C15: executing a submitted transaction of any kind with Success on a
\* reachable store deducts from the sender exactly the recorded gas_used times
\* gas_price (plus the value of a Transfer to another address) and increments
\* the sender's nonce by exactly 1.
C15_SuccessChargesRecordedGas ==
    \A tx \in TokenTxs :
        LET r == execute_all(store, <<tx>>, <<>>, height, now)
            e == r.txs[1]
        IN  e.status = "Success" =>
                /\ get_balance(r.st, tx.from)
                     = get_balance(store, tx.from) - e.gas_used * e.gas_price
                       - (IF tx.tx_type = "Transfer" /\ tx.to # tx.from THEN tx.value ELSE 0)
                /\ get_nonce(r.st, tx.from) = get_nonce(store, tx.from) + 1

\* ---------------------------------------------------------------- C16
\* the callers: the addresses and the empty caller of the legacy Call kind
Callers == Addrs \cup {0}
SetterNames == {"owner", "count", "votes", "nope"}
ArgLists == {<<>>, <<Str(2)>>, <<Str(2), Num(3)>>}

IsSetterCallBy(tx, st) ==
    /\ tx.tx_type = "CallContract" /\ tx.data.kind = "CallContract"
    /\ tx.data.method.pre = "set"
    /\ tx.data.contract \in DOMAIN st.mosh
    /\ tx.from # st.mosh[tx.data.contract].owner

\* C16: on every reachable store, for every contract, every set_ method and
\* every argument list, a call by anyone but the contract's current owner
\* fails with the error "Only owner" and leaves the store as it was; a tick
\* that executes only such calls records them Failed (the first with that
\* error when it passes the gates) and changes no contract record, variable
\* cell or mapping cell.
C16_SetterOnlyOwner ==
    [][/\ \A c \in DOMAIN mosh, caller \in Callers, name \in SetterNames, args \in ArgLists :
            caller # mosh[c].owner =>
                LET r == call(store, caller, c, Method("set", name), args, 0, height, now)
                IN  ~r.success /\ r.error = "Only owner" /\ r.st = store
       /\ LET d == drain_for_block(mempool, max_txs_per_block).txs
          IN  (height' # height /\ d # <<>>
                 /\ \A i \in 1..Len(d) : IsSetterCallBy(d[i], store)) =>
                  /\ \A i \in 1..Len(d) : blocks'[height'].transactions[i].status = "Failed"
                  /\ GateError(store, d[1]) = "None" =>
                         blocks'[height'].transactions[1].error.msg = "Only owner"
                  /\ mosh' = mosh /\ mosh_var' = mosh_var /\ mosh_map' = mosh_map]_vars

C16_Witness ==
    /\ registry \in DOMAIN mosh /\ mosh[registry].owner = 2
    /\ \E p \in TxPlaces :
           /\ TxAt(p).data.method = Method("set", "count")
           /\ TxAt(p).status = "Failed" /\ TxAt(p).error.msg = "Only owner"

\* ---------------------------------------------------------------- C17
Amounts == {0, UNIT, 2 * UNIT, 3 * UNIT}

\* the op transfer {to, amount} with literal operands
TransferOp(to, amount) ==
    [NoOp EXCEPT !.op = "transfer", !.to = StrOpd("", str_of(to)), !.amount = NumOpd(amount)]

Ctx0 ==
    [caller |-> master_address, amount |-> 0, block_height |-> height,
     block_timestamp |-> now, args |-> EmptyMap, locals |-> EmptyMap]

\* the token balances after moving amount of token t from the contract c to to
Moved(t, c, to, amount) ==
    LET keys == DOMAIN token_balance \cup {<<t, c>>, <<t, to>>}
    IN  [k \in keys |->
            Get(token_balance, k, 0)
            - (IF k = <<t, c>> THEN amount ELSE 0) + (IF k = <<t, to>> THEN amount ELSE 0)]

IsWithdraw(tx) ==
    /\ tx.tx_type = "CallContract" /\ tx.data.kind = "CallContract"
    /\ tx.data.method = Method("", "withdraw")

\* C17: on every reachable store, for every contract, recipient (the contract
\* itself included) and amount, a transfer op of a contract bound to token T
\* with at least amount of T moves exactly amount from the contract's balance
\* of T to the recipient's and changes nothing else; without a bound token or
\* with a lower balance it fails and leaves the store as it was.  A tick that
\* executes one withdraw call changes the token balances in the same way.
C17_TransferOpMovesAmount ==
    [][/\ \A c \in DOMAIN mosh : \A to \in Addrs \cup {c}, amount \in Amounts :
            LET r == exec_op(store, mosh[c], Ctx0, TransferOp(to, amount), SuccessData)
                t == mosh[c].token
            IN  IF t = NoAddr \/ get_token_balance(store, t, c) < amount
                THEN r.err # "" /\ r.st = store
                ELSE /\ r.err = ""
                     /\ r.st = [store EXCEPT !.token_balance = Moved(t, c, to, amount)]
       /\ LET d == drain_for_block(mempool, max_txs_per_block).txs
          IN  (height' # height /\ Len(d) = 1 /\ IsWithdraw(d[1])
                 /\ GateError(store, d[1]) = "None" /\ vault \in DOMAIN mosh) =>
                  LET t == mosh[vault].token
                      e == blocks'[height'].transactions[1]
                  IN  IF t = NoAddr \/ get_token_balance(store, t, vault) < UNIT
                      THEN e.status = "Failed" /\ token_balance' = token_balance
                      ELSE /\ e.status = "Success"
                           /\ token_balance' = Moved(t, vault, d[1].from, UNIT)]_vars

C17_Witness ==
    /\ vault \in DOMAIN mosh /\ mosh[vault].token = demo_token
    /\ get_token_balance(store, demo_token, vault) = UNIT
    /\ get_token_balance(store, demo_token, master_address) = 2 * UNIT
    /\ \E p \in TxPlaces : IsWithdraw(TxAt(p)) /\ TxAt(p).status = "Success"

\* ---------------------------------------------------------------- C18
FirstStart == height = 0 /\ mempool = Mempool_new

\* C18: right after the first start on an empty store the height is 0, block 0
\* exists with no transactions and the master as validator, the master holds
\* master_balance * 10^8 and total_supply is master_balance * 10^8.
C18_GenesisState ==
    FirstStart =>
        /\ DOMAIN blocks = {0}
        /\ blocks[0].height = 0 /\ blocks[0].transactions = <<>>
        /\ blocks[0].validator = master_address
        /\ get_balance(store, master_address) = master_balance * UNIT
        /\ total_supply = master_balance * UNIT

\* ---------------------------------------------------------------- C19
\* C19: on every reachable store, calling a user function marked View through
\* MVM::call (the path of CallContract), by any caller, leaves every contract
\* record, variable cell, mapping cell and token balance as it was.
C19_ViewNeverMutates ==
    \A c \in DOMAIN mosh : \A i \in 1..Len(mosh[c].functions), caller \in Callers :
        "View" \in mosh[c].functions[i].modifiers =>
            LET r == call(store, caller, c, mosh[c].functions[i].name, <<>>, 0, height, now)
            IN  /\ r.st.mosh = mosh /\ r.st.mosh_var = mosh_var
                /\ r.st.mosh_map = mosh_map /\ r.st.token_balance = token_balance

\* ---------------------------------------------------------------- C20
\* the methods asked of the view path: the contract's functions, getters,
\* setters and an unknown name; the addresses: the contracts and a missing one
ViewMethods(c) ==
    {mosh[c].functions[i].name : i \in 1..Len(mosh[c].functions)}
    \cup {Method(pre, n) : pre \in {"get", "set"}, n \in SetterNames}
    \cup {Method("", "nope")}

IsViewFunction(c, m) ==
    has_function(mosh[c], m) /\ "View" \in find_function(mosh[c], m).modifiers

\* C20 as stated: the view path leaves the store unchanged, rejects every user
\* function without the View modifier and every set_ method, and reports gas 0
\* on every successful read.
C20_ViewPathRejectsSetters ==
    \A c \in DOMAIN mosh : \A m \in ViewMethods(c), args \in ArgLists :
        LET r == read_contract(store, c, m, args)
        IN  /\ r.st = store
            /\ (has_function(mosh[c], m) /\ ~IsViewFunction(c, m)) => ~r.success
            /\ m.pre = "set" => ~r.success
            /\ r.success => r.gas = 0

\* C20 amended: the same, the rejected set_ methods being those that are not
\* the name of a user function marked View.
C20_ViewPathReadOnly ==
    /\ LET r == read_contract(store, ContractBase + MAX_FUNCTIONS, Method("get", "owner"), <<>>)
       IN  r.st = store /\ ~r.success
    /\ \A c \in DOMAIN mosh : \A m \in ViewMethods(c), args \in ArgLists :
        LET r == read_contract(store, c, m, args)
        IN  /\ r.st = store
            /\ (has_function(mosh[c], m) /\ ~IsViewFunction(c, m)) =>
                   ~r.success /\ r.error = "not_view_function"
            /\ (m.pre = "set" /\ ~IsViewFunction(c, m)) =>
                   ~r.success /\ r.error \in {"write_function", "not_view_function"}
            /\ r.success => r.gas = 0

C20_Witness ==
    /\ registry \in DOMAIN mosh
    /\ get_mosh_var(store, registry, "count") = Num(7)
    /\ read_contract(store, registry, Method("", "peek"), <<>>) = ReadOk(store, Num(7))
    /\ read_contract(store, registry, Method("set", "count"), <<>>) = ReadOk(store, Num(7))
    /\ ~read_contract(store, registry, Method("", "bump"), <<>>).success
    /\ ~read_contract(store, registry, Method("set", "owner"), <<Str(2)>>).success

\* ---- C21: the schema of every persisted contract is within the limits
\* the limits of the contract schema: the sizes, the lengths of the names and no
\* name shared between variables and mappings
SchemaBounded(c) ==
    /\ Len(c.variables) <= MAX_VARIABLES
    /\ Len(c.mappings) <= MAX_MAPPINGS
    /\ Len(c.functions) <= MAX_FUNCTIONS
    /\ \A i \in 1..Len(c.functions) : Len(c.functions[i].body) <= MAX_OPS_PER_FUNCTION
    /\ c.name_len <= MAX_NAME_LENGTH
    /\ \A i \in 1..Len(c.variables) : Len(c.variables[i].name) <= MAX_NAME_LENGTH
    /\ \A i \in 1..Len(c.mappings) : Len(c.mappings[i].name) <= MAX_NAME_LENGTH
    /\ \A i \in 1..Len(c.variables) : \A j \in 1..Len(c.mappings) :
          c.variables[i].name # c.mappings[j].name

\* C21: every persisted contract record satisfies the schema limits (at most 10
\* variables, 5 mappings, 10 functions, 20 operations per function, names of at
\* most 32 characters) and shares no name between variables and mappings, and a
\* deploy of a schema over a limit, with a shared name or with a token that does
\* not exist leaves the store as it was.
C21_PersistedSchemaBounded ==
    /\ \A a \in DOMAIN mosh : SchemaBounded(mosh[a])
    /\ \A def \in RefusedDefs : deploy(store, 1, 5, NoAddr, def, now).st = store
    /\ demo_token \notin DOMAIN tokens
          => deploy(store, 1, 5, demo_token, vault_def, now).st = store

\* ---- C22: no persisted contract declares a variable with a reserved name
\* C22: deploy rejects every contract that declares a variable whose name is one
\* of owner, creator, token, address, balance, name; no persisted contract has a
\* variable with any of these six names.
C22_NoReservedVariable ==
    \A a \in DOMAIN mosh : \A i \in 1..Len(mosh[a].variables) :
        mosh[a].variables[i].name \notin reserved \cup {"name"}

\* ---- C23: submit validates neither the signature nor the nonce
\* C23: submit performs no validation of signature or nonce: a transaction with a
\* wrong nonce or an invalid signature is accepted into the mempool, and only a
\* duplicate hash or a pending transaction of the same sender and nonce makes
\* submit fail.
C23_SubmitOnlyPoolChecks ==
    \A tx \in GateTxs :
        LET r == submit_transaction(store, mempool, tx)
        IN  \/ r.error = "" /\ tx.hash \in DOMAIN r.mp.by_hash
            \/ tx.hash \in DOMAIN mempool.by_hash
            \/ has_pending_nonce(mempool, tx.from, tx.nonce)

\* ---- C24: a tick whose persistence fails leaves no partial state
\* C24: if a persistence step of produce_block fails (save_block, set_height,
\* index_transaction, the reward credit, the total supply update), the tick is
\* aborted and balances, nonces, token and contract cells, height, total supply
\* and stored blocks are the same as before the tick; only the drained mempool
\* entries are gone.
C24_FailedTickLeavesState ==
    [][\A t \in Times, failed \in DOMAIN PersistSteps :
          produce_block_failing(t, failed)
              => UNCHANGED <<balance, nonce, tokens, token_balance, mosh, mosh_var,
                             mosh_map, height, total_supply, blocks>>]_vars

\* ---- C25: a reader never sees a half-applied transaction
\* some writes of the transaction in execution are in the store and others are not
HalfApplied == producer.pc = "write" /\ producer.steps # <<>> /\ store # producer.base

\* C25: the state transition of a single transaction is atomic for concurrent
\* readers: a task holding the state read lock never observes a half-applied
\* transaction (a sender debited without the recipient credited or without the
\* nonce incremented), because all the writes of one transaction happen under one
\* uninterrupted hold of the write lock; what the writes add up to is the
\* transition of the transaction.
C25_ReadersSeeWholeTransactions ==
    /\ state_lock.readers > 0 => ~HalfApplied
    /\ HalfApplied => state_lock.writer
    /\ producer.pc = "write" /\ producer.steps = <<>>
          => store = execute_transaction(producer.base, Head(producer.txs), height,
                                         producer.t).st

\* a reader holds the read lock between two transactions of a block, after a
\* transfer and a token transfer were applied whole
C25_Witness ==
    /\ state_lock.readers > 0
    /\ producer.pc = "loop"
    /\ \E i \in 1..Len(producer.executed_txs) :
          /\ producer.executed_txs[i].status = "Success"
          /\ producer.executed_txs[i].tx_type \in {"Transfer", "TransferToken"}

\* ---- C26: a token record is created once and never overwritten
\* C26: a successful CreateToken with total_supply s creates a token record with
\* total_supply s * 10^8 (and credits the creator with it), and a token record is
\* immutable once created: no later transaction, another CreateToken of the same
\* creator and name in the same second or block included, overwrites it.
C26_TokenRecordImmutable ==
    \A p \in TxPlaces :
        TxAt(p).tx_type = "CreateToken" /\ TxAt(p).data.kind = "CreateToken"
        /\ TxAt(p).status = "Success"
            => /\ TxAt(p).to \in DOMAIN tokens
               /\ tokens[TxAt(p).to].total_supply = TxAt(p).data.total_supply * UNIT
               /\ tokens[TxAt(p).to].creator = TxAt(p).from

\* ---- C27: a counter counts its successful calls
\* the successful calls of bump recorded in the blocks
Bumps == {p \in TxPlaces : /\ TxAt(p).tx_type = "CallContract"
                           /\ TxAt(p).status = "Success"
                           /\ TxAt(p).data.method = Method("", "bump")}

\* C27: for a contract with the uint64 variable count (default 0) and a function
\* whose body is add count 1, get_count returns 0 before any call and k after
\* exactly k successful calls of the function; add of a value to a variable sets
\* the variable to u64(current) + u64(value).
C27_CounterCountsCalls ==
    registry \in DOMAIN mosh =>
        /\ \A caller \in Addrs :
              LET r == call(store, caller, registry, Method("get", "count"), <<>>, 0,
                            height, now)
              IN  r.success /\ r.data = Num(Cardinality(Bumps)) /\ r.st = store
        /\ \A v \in 0..2 :
              LET r == exec_op(store, mosh[registry], Ctx0,
                               [NoOp EXCEPT !.op = "add", !.var = "count",
                                            !.value = NumOpd(v)], SuccessData)
              IN  /\ r.err = ""
                  /\ get_mosh_var(r.st, registry, "count") = Num(Cardinality(Bumps) + v)

\* two successful calls of bump are recorded after a get_count transaction
C27_Witness ==
    /\ registry \in DOMAIN mosh
    /\ Cardinality(Bumps) = 2
    /\ \E p \in TxPlaces : TxAt(p).status = "Success"
                           /\ TxAt(p).data.method = Method("get", "count")

\* ---- C28: only the key of the sender signs for the sender
\* C28: a signature made by a keypair over hash_tx_data(...) verifies under that
\* keypair's public key; verify_tx_signature(from, msg, sig, pubkey) succeeds iff
\* the address derived from pubkey is from and sig is a signature of msg under
\* pubkey; a transaction whose public key does not derive its from address is
\* never executed as Success.
C28_SignatureBindsSender ==
    /\ \A n \in 0..1 : \A k \in PublicKeys :
          LET m == hash_tx_data("Transfer", 1, 2, UNIT, n, NoData)
          IN  verify_tx_signature(address_from_public_key(k), m, sign_hex(k, m), k) = "ok"
    /\ \A n \in 0..1 : \A from \in Addrs \cup {InvalidAddr} :
       \A signature \in Signatures(n), public_key \in PublicKeys :
          LET m == hash_tx_data("Transfer", 1, 2, UNIT, n, NoData)
          IN  verify_tx_signature(from, m, signature, public_key) = "ok"
                  <=> /\ address_from_public_key(public_key) = from
                      /\ signature = sign_hex(public_key, m)
    /\ \A n \in 0..1 : \A signature \in Signatures(n), public_key \in PublicKeys :
          address_from_public_key(public_key) # 1
              => \A p \in TxPlaces :
                    SameTx(TxAt(p), signed_transfer(n, signature, public_key))
                        => TxAt(p).status = "Failed"

\* a transfer from address 1 that carries the public key of address 2 and a
\* signature that is valid under it was executed, and failed
C28_Witness ==
    \E p \in TxPlaces :
        /\ SameTx(TxAt(p),
                  signed_transfer(0, sign_hex([wellformed |-> TRUE, derives |-> 2],
                                              hash_tx_data("Transfer", 1, 2, UNIT, 0, NoData)),
                                  [wellformed |-> TRUE, derives |-> 2]))
        /\ TxAt(p).status = "Failed"
        /\ TxAt(p).error.kind = "InvalidSignature"

OwnerMethods == {Method("set", "owner"), Method("set", "count"), Method("", "reset"),
                 Method("", "bump")}
OwnerArgs == {<<>>, <<Str(2)>>, <<Num(5)>>}

OwnerChecked(c, m) ==
    m.pre = "set" \/ (has_function(c, m) /\ "OnlyOwner" \in find_function(c, m).modifiers)

SameSchema(c, d) ==
    /\ c.creator = d.creator /\ c.variables = d.variables
    /\ c.mappings = d.mappings /\ c.functions = d.functions

\* C30: in every reachable state and for every call of a contract (any caller,
\* the empty caller of the legacy path included; an auto-setter, an OnlyOwner
\* function or a plain function; any argument list) the call leaves the creator
\* and the variable, mapping and function schema as they were, changes the owner
\* only when it is a successful set_owner by the current owner, which then holds
\* the argument, and, when the method is an auto-setter or an OnlyOwner
\* function, fails with "Only owner" exactly when the caller is not the current
\* owner. In every step no contract record disappears, an existing one keeps its
\* creator and schema, and the owner of a contract differs from the owner of
\* before (for a contract deployed in this step: from its creator) only when the
\* step's block holds a successful set_owner sent by that owner, to that call's
\* argument.
C30_OwnerOnlyBySetOwner ==
    /\ [](\A c \in DOMAIN mosh, caller \in Callers, m \in OwnerMethods, args \in OwnerArgs :
            \A r \in {call(store, caller, c, m, args, 0, height, now)} :
                /\ c \in DOMAIN r.st.mosh /\ SameSchema(r.st.mosh[c], mosh[c])
                /\ r.st.mosh[c].owner # mosh[c].owner =>
                       /\ m = Method("set", "owner") /\ caller = mosh[c].owner
                       /\ r.success /\ r.st.mosh[c].owner = key_of(args[1])
                /\ OwnerChecked(mosh[c], m) =>
                       (caller # mosh[c].owner <=> (~r.success /\ r.error = "Only owner")))
    /\ [][\A c \in DOMAIN mosh' :
            \A was \in {IF c \in DOMAIN mosh THEN mosh[c]
                                            ELSE [mosh'[c] EXCEPT !.owner = mosh'[c].creator]} :
                /\ SameSchema(mosh'[c], was)
                /\ mosh'[c].owner # was.owner =>
                       \E i \in 1..Len(blocks'[height'].transactions) :
                           \A tx \in {blocks'[height'].transactions[i]} :
                               /\ tx.status = "Success" /\ tx.tx_type = "CallContract"
                               /\ tx.data.contract = c
                               /\ tx.data.method = Method("set", "owner")
                               /\ tx.from = was.owner
                               /\ mosh'[c].owner = key_of(tx.data.args[1])]_vars
    /\ [][DOMAIN mosh \subseteq DOMAIN mosh']_vars

\* the master handed the contract to address 2, and its later call of the
\* OnlyOwner function reset was recorded Failed with "Only owner"; the creator
\* is still the master
C30_Witness ==
    /\ registry \in DOMAIN mosh /\ mosh[registry].owner = 2 /\ mosh[registry].creator = 1
    /\ \E p \in TxPlaces :
           /\ TxAt(p).data.method = Method("", "reset") /\ TxAt(p).from = 1
           /\ TxAt(p).status = "Failed" /\ TxAt(p).error.msg = "Only owner"

\* ---- C31: a let binding and the names it shadows
LetOp(x, v) == [NoOp EXCEPT !.op = "let", !.var = x, !.value = v]

\* the execution context of a call by the master of a function with the one
\* parameter who
CtxWho(arg) ==
    [caller |-> 1, amount |-> 0, block_height |-> height, block_timestamp |-> now,
     args |-> map_args(EmptyMap, <<"who">>, <<arg>>, 1), locals |-> EmptyMap]

\* C31: on every reachable store, for every contract, a let op binding the name x
\* (the parameter who, the contract variable count or a fresh name) to the operand
\* v passes, leaves the store as it was, and makes the next resolution of x yield
\* what v resolved to; a successful call of shadow(who), whose body is let who = 9
\* followed by set count who, leaves 9 in count.
C31_LetShadowsParameterAndVariable ==
    \A c \in DOMAIN mosh :
        /\ \A x \in {"who", "count", "tmp"} :
           \A v \in {NumOpd(9), StrOpd("msg.sender", Str(60))} :
           \A r \in {exec_op(store, mosh[c], CtxWho(Num(5)), LetOp(x, v), SuccessData)} :
               /\ r.err = "" /\ r.st = store
               /\ resolve_value(r.st, mosh[c], r.ctx, StrOpd(x, Str(66)))
                      = resolve_value(store, mosh[c], CtxWho(Num(5)), v)
        /\ \A r \in {call(store, 1, c, Method("", "shadow"), <<Num(5)>>, 0, height, now)} :
               r.success => get_mosh_var(r.st, c, "count") = Num(9)

\* ---- C32: contract arithmetic within u64
U64 == 0..U64_MAX
CountOf(st, c) == parse_u64(get_mosh_var(st, c, "count"))
VotesOf(st, c, k) == parse_u64(get_mosh_map(st, c, "votes", k))
ArithOp(name, n) ==
    [NoOp EXCEPT !.op = name, !.var = "count", !.map = "votes",
                 !.key = StrOpd("who", Str(64)), !.value = NumOpd(n)]

\* C32: on every reachable store, for every contract and every u64 operand n, the
\* ops sub and map_sub store max(current - n, 0), the ops add and map_add store a
\* value that is not smaller than the current one, in whichever build the sum is
\* computed, and a successful call of grow(n), whose body is add count n, leaves
\* count not smaller than it was.
C32_ArithmeticNeverWraps ==
    \A c \in DOMAIN mosh : \A n \in U64 :
        /\ \A r \in {exec_op(store, mosh[c], CtxWho(Str(2)), ArithOp("sub", n), SuccessData)} :
               CountOf(r.st, c) = saturating_sub(CountOf(store, c), n)
        /\ \A r \in {exec_op(store, mosh[c], CtxWho(Str(2)), ArithOp("map_sub", n),
                             SuccessData)} :
               VotesOf(r.st, c, Str(2)) = saturating_sub(VotesOf(store, c, Str(2)), n)
        /\ \A r \in {exec_op(store, mosh[c], CtxWho(Str(2)), ArithOp("add", n), SuccessData)} :
               CountOf(r.st, c) >= CountOf(store, c)
        /\ \A r \in {exec_op(store, mosh[c], CtxWho(Str(2)), ArithOp("map_add", n),
                             SuccessData)} :
               VotesOf(r.st, c, Str(2)) >= VotesOf(store, c, Str(2))
        /\ \A o \in add_outcomes(get_mosh_var(store, c, "count"), Num(n)) :
               o = Panic \/ o >= CountOf(store, c)
        /\ \A r \in {call(store, 1, c, Method("", "grow"), <<Num(n)>>, 0, height, now)} :
               r.success => CountOf(r.st, c) >= CountOf(store, c)

\* ---- C33: an absent mapping cell and a cell holding the zero value
VotesOpd == IdxOpd("votes[who]", Str(62), "votes", "who", Str(64))

\* C33: on every reachable store, for every contract with the uint mapping votes
\* and every key whose cell is absent, each read path gives what it gives on the
\* store where the cell holds "0": the auto-getter get_votes(key), the operand
\* votes[who] resolved with who = key, a call of fresh(key), whose body is
\* require votes[who] == 0, a require with != on the same operands, and the ops
\* map_add and map_sub, which also leave the same store behind.
C33_AbsentCellIsZero ==
    \A c \in DOMAIN mosh : \A k \in {Str(2), Str(3)} :
        (has_mapping(mosh[c], "votes") /\ ~has_mosh_map(store, c, "votes", k)) =>
            \A zero \in {set_mosh_map(store, c, "votes", k, Num(0))} :
                /\ call(store, 1, c, Method("get", "votes"), <<k>>, 0, height, now).data
                       = call(zero, 1, c, Method("get", "votes"), <<k>>, 0, height, now).data
                /\ resolve_value(store, mosh[c], CtxWho(k), VotesOpd)
                       = resolve_value(zero, mosh[c], CtxWho(k), VotesOpd)
                /\ call(store, 1, c, Method("", "fresh"), <<k>>, 0, height, now).success
                       = call(zero, 1, c, Method("", "fresh"), <<k>>, 0, height, now).success
                /\ \A op \in {[NoOp EXCEPT !.op = "require", !.cmp = "!=", !.left = NumOpd(0),
                                           !.right = VotesOpd],
                              ArithOp("map_add", 1), ArithOp("map_sub", 1)} :
                       /\ exec_op(store, mosh[c], CtxWho(k), op, SuccessData).err
                              = exec_op(zero, mosh[c], CtxWho(k), op, SuccessData).err
                       /\ op.op # "require" =>
                              exec_op(store, mosh[c], CtxWho(k), op, SuccessData).st
                                  = exec_op(zero, mosh[c], CtxWho(k), op, SuccessData).st

\* ---- C34: the hash of a persisted transaction
\* C34: for every transaction persisted in a block, of whatever kind and status,
\* the hash field equals Transaction::calculate_hash applied to the persisted
\* transaction's own fields (kind, from, to, value, nonce, timestamp).
C34_PersistedHashMatchesFields ==
    \A p \in TxPlaces : TxAt(p).hash = tx_calculate_hash(TxAt(p))

\* ---- C35: native balances within 64 bits
\* C35: on every reachable store, every pending transfer that passes the gates of
\* execute_transaction has a sender whose balance is at least the true sum of its
\* value and gas_used * gas_price, takes exactly that sum from the sender and,
\* when the recipient is another address, adds exactly the value to the
\* recipient; no balance is negative; and a tick adds the validator reward to
\* what the executed transactions left of the master's balance.
C35_BalancesNeverWrap ==
    /\ [](\A h \in DOMAIN mempool.by_hash :
              \A tx \in {mempool.by_hash[h]} :
              \A r \in {execute_transaction(store, tx, height, now)} :
                  (r.ok /\ tx.tx_type = "Transfer" /\ tx.to # tx.from) =>
                      /\ get_balance(store, tx.from) >= tx.value + r.tx.gas_used * tx.gas_price
                      /\ get_balance(r.st, tx.from)
                             = get_balance(store, tx.from)
                                   - (tx.value + r.tx.gas_used * tx.gas_price)
                      /\ get_balance(r.st, tx.to) = get_balance(store, tx.to) + tx.value)
    /\ [](\A a \in DOMAIN balance : balance[a] >= 0)
    /\ [][height' # height =>
              \A r \in {execute_all(store, drain_for_block(mempool, max_txs_per_block).txs,
                                    <<>>, height, now')} :
                  get_balance(store', master_address)
                      = get_balance(r.st, master_address)
                            + blocks'[height'].rewards.validator_reward]_vars

\* ---- C36: a failed transaction and the state
\* C36: on every reachable store, the execution of a pending transaction that
\* fails (at a gate, at the token or contract lookup, in the payable deposit or
\* in an op of the body) returns the store it started from: no native balance,
\* nonce, token balance, token record, contract record, variable cell or mapping
\* cell differs.
C36_FailedLeavesState ==
    \A h \in DOMAIN mempool.by_hash :
        \A r \in {execute_transaction(store, mempool.by_hash[h], height, now)} :
            ~r.ok => r.st = store

\* ---- C37: replay protection
\* a recorded transaction whose execution wrote to the store: a successful one,
\* or one that failed past the gates in an arm that deducts the gas fee first
HadEffect(tx) ==
    \/ tx.status = "Success"
    \/ /\ tx.status = "Failed" /\ tx.tx_type # "Transfer"
       /\ tx.error.kind \notin {"InvalidSignature", "InvalidNonce", "InsufficientBalance"}

\* C37: when a tick executes, as the first of its block, a transaction whose
\* sender and nonce are those of a transaction of an earlier block that had an
\* effect on the state, the execution fails and returns the store unchanged.
C37_NoReplay ==
    [][\A d \in {drain_for_block(mempool, max_txs_per_block).txs} :
          (height' # height /\ d # <<>>
             /\ \E p \in TxPlaces :
                   /\ TxAt(p).from = d[1].from /\ TxAt(p).nonce = d[1].nonce
                   /\ HadEffect(TxAt(p))) =>
              \A r \in {execute_transaction(store, d[1], height, now')} :
                  ~r.ok /\ r.st = store]_vars

\* ---- C38: a transaction hash and the blocks
\* C38: in every reachable state, two transactions of the chain with the same hash
\* are in the same block: no hash is included in a second block, whatever is
\* submitted after its first inclusion.
C38_HashInOneBlock ==
    \A p \in TxPlaces, q \in TxPlaces : TxAt(p).hash = TxAt(q).hash => p[1] = q[1]

\* ---- C39: the two indices of the mempool
\* count is the number of entries of by_hash; by_sender[s][n] = h exactly when
\* by_hash[h] is a transaction of sender s with nonce n; no sender has an empty
\* entry
Consistent(mp) ==
    /\ mp.count = Cardinality(DOMAIN mp.by_hash)
    /\ \A s \in DOMAIN mp.by_sender :
          /\ DOMAIN mp.by_sender[s] # {}
          /\ \A n \in DOMAIN mp.by_sender[s] :
                /\ mp.by_sender[s][n] \in DOMAIN mp.by_hash
                /\ mp.by_hash[mp.by_sender[s][n]].from = s
                /\ mp.by_hash[mp.by_sender[s][n]].nonce = n
    /\ \A h \in DOMAIN mp.by_hash :
          /\ mp.by_hash[h].from \in DOMAIN mp.by_sender
          /\ mp.by_hash[h].nonce \in DOMAIN mp.by_sender[mp.by_hash[h].from]
          /\ mp.by_sender[mp.by_hash[h].from][mp.by_hash[h].nonce] = h

\* C39: the mempool of every reachable state (after any sequence of submits, by a
\* peer or through the API, and of drains) is consistent, and so is the mempool
\* after one more add of any transaction, after remove of any hash, pending or
\* not, and after drain_for_block of any size.
C39_MempoolIndicesAgree ==
    /\ Consistent(mempool)
    /\ \A tx \in NativeTxs \cup GateTxs : Consistent(add(mempool, tx).mp)
    /\ \A tx \in NativeTxs \cup GateTxs : Consistent(remove(mempool, tx.hash))
    /\ \A max \in 0..(MaxPending + 1) : Consistent(drain_for_block(mempool, max).mp)

\* a block took the only pending transaction of one sender and left a
\* transaction of another sender pending
C39_Witness ==
    /\ height >= 1 /\ mempool.count >= 1
    /\ \E i \in 1..Len(blocks[height].transactions) :
          blocks[height].transactions[i].from \notin DOMAIN mempool.by_sender

\* ---- C40: the faucet and block production
\* what the execution of a recorded transaction added to the balance of an address:
\* a successful transfer moves the value and charges the fee, every other
\* transaction that got past the gates charges the fee
tx_delta(tx, a) ==
    LET gas_fee == tx.gas_used * tx.gas_price
    IN  IF tx.status = "Success" /\ tx.tx_type = "Transfer"
        THEN (IF tx.to = a THEN tx.value ELSE 0)
                 - (IF tx.from = a THEN tx.value + gas_fee ELSE 0)
        ELSE IF HadEffect(tx) /\ tx.from = a THEN 0 - gas_fee ELSE 0

RECURSIVE txs_delta(_, _)
txs_delta(txs, a) ==
    IF txs = <<>> THEN 0 ELSE tx_delta(Head(txs), a) + txs_delta(Tail(txs), a)

\* the credits and debits of the blocks 1..h: the transactions and the reward
RECURSIVE chain_delta(_, _)
chain_delta(h, a) ==
    IF h = 0
    THEN 0
    ELSE txs_delta(blocks[h].transactions, a)
             + (IF blocks[h].validator = a THEN blocks[h].rewards.validator_reward
                                           ELSE 0)
             + chain_delta(h - 1, a)

\* the credits of the faucet: one claim per address within the cooldown
faucet_delta(a) == IF a \in DOMAIN faucet_claim THEN faucet_amount * UNIT ELSE 0

\* C40: whenever the store is not write-locked, so between any two steps of the
\* faucet and of the producer, the balance of every address is its genesis balance
\* plus the faucet claims, the rewards and the transfers received, minus the
\* values and the fees paid, over the blocks of the chain and the transactions
\* already executed of the block in production: no update is lost.
C40_NoLostBalanceUpdate ==
    ~state_lock.writer =>
        \A a \in Addrs :
            get_balance(store, a) =
                (IF a = master_address THEN master_balance * UNIT ELSE 0)
                    + faucet_delta(a) + chain_delta(height, a)
                    + (IF producer.pc = "idle" THEN 0
                                               ELSE txs_delta(producer.executed_txs, a))

\* a block in production has executed the master's transfer and its next
\* transaction, which the master pays for too, has passed the gates; the master's
\* faucet claim landed after the transfer took the write guard
C40_Witness ==
    /\ producer.pc = "gated"
    /\ Len(producer.executed_txs) = 1
    /\ producer.executed_txs[1].status = "Success"
    /\ producer.executed_txs[1].from = master_address
    /\ Head(producer.txs).from = master_address
    /\ get_balance(store, master_address) =
           get_balance(producer.base, master_address)
               + txs_delta(producer.executed_txs, master_address)
               + faucet_amount * UNIT

====
